---- MODULE Spec2Model ----
(***************************************************************************)
(* Model of the equation compiler of server/equation_parser.py and of the  *)
(* two handlers of server/equation_router.py that use it.                  *)
(*                                                                         *)
(* A string is a sequence of one-character strings.  The rewrite pipeline  *)
(* is translated regex by regex: a pattern is a sequence of items (one     *)
(* character class each, with a quantifier and a group number), matched    *)
(* left to right, each quantified item taking the longest run.  In every   *)
(* pattern of the source the item after a quantified item cannot match a   *)
(* character of that item's class, so the longest run is the only match    *)
(* and this is exactly the matching of Python's re module.                 *)
(***************************************************************************)
EXTENDS Integers, Sequences, FiniteSets, TLC

\* ------------------------------------------------------------ characters

Lower == {"a","b","c","d","e","f","g","h","i","j","k","l","m",
          "n","o","p","q","r","s","t","u","v","w","x","y","z"}
Upper == {"A","B","C","D","E","F","G","H","I","J","K","L","M",
          "N","O","P","Q","R","S","T","U","V","W","X","Y","Z"}
Letter == Lower \cup Upper
Digit == {"0","1","2","3","4","5","6","7","8","9"}
WordChar == Letter \cup Digit \cup {"_"}
Whitespace == {" ", "\t", "\n"}

\* str.lower() on one character
LowerChar(c) ==
    LET lower(i) == <<"a","b","c","d","e","f","g","h","i","j","k","l","m",
                      "n","o","p","q","r","s","t","u","v","w","x","y","z">>[i]
    IN  IF c \in Upper
        THEN lower(CHOOSE i \in 1..26 :
                 <<"A","B","C","D","E","F","G","H","I","J","K","L","M",
                   "N","O","P","Q","R","S","T","U","V","W","X","Y","Z">>[i] = c)
        ELSE c

StrLower(s) == [i \in 1..Len(s) |-> LowerChar(s[i])]

\* d in s  (substring test)
Contains(s, d) ==
    \E i \in 1..(Len(s) - Len(d) + 1) : SubSeq(s, i, i + Len(d) - 1) = d

\* s.count(c) for a one-character c
Count(s, c) == Cardinality({i \in 1..Len(s) : s[i] = c})

RECURSIVE LStrip(_)
LStrip(s) == IF s # <<>> /\ Head(s) \in Whitespace THEN LStrip(Tail(s)) ELSE s

RECURSIVE RStrip(_)
RStrip(s) ==
    IF s # <<>> /\ s[Len(s)] \in Whitespace THEN RStrip(SubSeq(s, 1, Len(s) - 1))
    ELSE s

\* str.strip()
Strip(s) == RStrip(LStrip(s))

\* --------------------------------------------------------------- regexes

\* one item of a pattern: a character class, a quantifier, a group number
L(c) == [neg |-> FALSE, set |-> {c}, q |-> "1", g |-> 0]
In(S) == [neg |-> FALSE, set |-> S, q |-> "1", g |-> 0]
NotIn(S) == [neg |-> TRUE, set |-> S, q |-> "1", g |-> 0]
Plus(it) == [it EXCEPT !.q = "+"]
Star(it) == [it EXCEPT !.q = "*"]
Grp(n, pat) == [i \in 1..Len(pat) |-> [pat[i] EXCEPT !.g = n]]
Lits(str) == [i \in 1..Len(str) |-> L(str[i])]

ItemMatches(it, c) == (c \in it.set) # it.neg

\* the end of the longest run of characters of the item's class from i
RECURSIVE RunEnd(_, _, _)
RunEnd(it, s, i) ==
    IF i <= Len(s) /\ ItemMatches(it, s[i]) THEN RunEnd(it, s, i + 1) ELSE i

RECURSIVE MatchItems(_, _, _, _, _)
MatchItems(pat, s, k, i, acc) ==
    IF k > Len(pat)
    THEN [ok |-> TRUE, end |-> i, g1 |-> acc[1], g2 |-> acc[2]]
    ELSE LET it == pat[k]
             j == IF it.q = "1"
                  THEN (IF i <= Len(s) /\ ItemMatches(it, s[i]) THEN i + 1 ELSE i)
                  ELSE RunEnd(it, s, i)
             acc2 == IF it.g = 0 THEN acc
                     ELSE [acc EXCEPT ![it.g] = @ \o SubSeq(s, i, j - 1)]
         IN IF it.q = "*" \/ j > i
            THEN MatchItems(pat, s, k + 1, j, acc2)
            ELSE [ok |-> FALSE, end |-> 0, g1 |-> <<>>, g2 |-> <<>>]

\* re.match of the pattern at position i of s
MatchAt(pat, s, i) == MatchItems(pat, s, 1, i, <<(<<>>), (<<>>)>>)

\* the replacement template: "\\1" and "\\2" stand for the groups
RECURSIVE Expand(_, _)
Expand(repl, m) ==
    IF repl = <<>> THEN <<>>
    ELSE (IF Head(repl) = "\\1" THEN m.g1
          ELSE IF Head(repl) = "\\2" THEN m.g2
          ELSE <<Head(repl)>>) \o Expand(Tail(repl), m)

\* re.sub from position i of s on.  One step replaces the match at a
\* position or copies the character there; n steps are the first half of
\* them and then the rest, and Len(s) steps reach the end of s.
SubFrom(pat, repl, s, i) ==
    LET one(j, m) == IF m.ok /\ m.end > j
                     THEN [out |-> Expand(repl, m), pos |-> m.end]
                     ELSE [out |-> <<s[j]>>, pos |-> j + 1]
        RECURSIVE Steps(_, _)
        Steps(j, n) ==
            IF j > Len(s) THEN [out |-> <<>>, pos |-> j]
            ELSE IF n <= 1 THEN one(j, MatchAt(pat, s, j))
            ELSE LET rest(a, b) == [out |-> a.out \o b.out, pos |-> b.pos]
                     then(a) == rest(a, Steps(a.pos, n - n \div 2))
                 IN  then(Steps(j, n \div 2))
    IN  Steps(i, Len(s)).out

\* re.sub(pat, repl, s): every non-overlapping match, leftmost first
ReSub(pat, repl, s) == SubFrom(pat, repl, s, 1)

\* re.sub('^' + pat, repl, s): the pattern is tried at the start only
ReSubStart(pat, repl, s) ==
    LET go(m) == IF m.ok THEN Expand(repl, m) \o SubSeq(s, m.end, Len(s)) ELSE s
    IN  go(MatchAt(pat, s, 1))

\* re.search(pat, s): the leftmost match, as [ok, start, end, g1, g2]
SearchFrom(pat, s, i) ==
    LET found(j, m) ==
            [ok |-> TRUE, start |-> j, end |-> m.end, g1 |-> m.g1, g2 |-> m.g2]
        leftmost(starts) ==
            IF starts = {}
            THEN [ok |-> FALSE, start |-> 0, end |-> 0, g1 |-> <<>>, g2 |-> <<>>]
            ELSE LET at(j) == found(j, MatchAt(pat, s, j))
                 IN  at(CHOOSE j \in starts : \A k \in starts : j <= k)
    IN  leftmost({j \in i..Len(s) : MatchAt(pat, s, j).ok})

\* ------------------------------------------------------ EquationParser

\* FUNCTION_MAP, in the order the dict is written (the order of the loop)
FUNCTION_MAP == <<
    [latex |-> <<"\\","s","i","n">>,             py |-> <<"n","p",".","s","i","n">>],
    [latex |-> <<"\\","c","o","s">>,             py |-> <<"n","p",".","c","o","s">>],
    [latex |-> <<"\\","t","a","n">>,             py |-> <<"n","p",".","t","a","n">>],
    [latex |-> <<"\\","c","o","t">>,             py |-> <<"(","1","/","n","p",".","t","a","n">>],
    [latex |-> <<"\\","s","e","c">>,             py |-> <<"(","1","/","n","p",".","c","o","s">>],
    [latex |-> <<"\\","c","s","c">>,             py |-> <<"(","1","/","n","p",".","s","i","n">>],
    [latex |-> <<"\\","a","r","c","s","i","n">>, py |-> <<"n","p",".","a","r","c","s","i","n">>],
    [latex |-> <<"\\","a","r","c","c","o","s">>, py |-> <<"n","p",".","a","r","c","c","o","s">>],
    [latex |-> <<"\\","a","r","c","t","a","n">>, py |-> <<"n","p",".","a","r","c","t","a","n">>],
    [latex |-> <<"\\","s","i","n","h">>,         py |-> <<"n","p",".","s","i","n","h">>],
    [latex |-> <<"\\","c","o","s","h">>,         py |-> <<"n","p",".","c","o","s","h">>],
    [latex |-> <<"\\","t","a","n","h">>,         py |-> <<"n","p",".","t","a","n","h">>],
    [latex |-> <<"\\","l","n">>,                 py |-> <<"n","p",".","l","o","g">>],
    [latex |-> <<"\\","l","o","g">>,             py |-> <<"n","p",".","l","o","g","1","0">>],
    [latex |-> <<"\\","e","x","p">>,             py |-> <<"n","p",".","e","x","p">>],
    [latex |-> <<"\\","s","q","r","t">>,         py |-> <<"n","p",".","s","q","r","t">>],
    [latex |-> <<"\\","a","b","s">>,             py |-> <<"n","p",".","a","b","s">>] >>

CONSTANT_MAP == <<
    [latex |-> <<"\\","p","i">>,             py |-> <<"n","p",".","p","i">>],
    [latex |-> <<"\\","e">>,                 py |-> <<"n","p",".","e">>],
    [latex |-> <<"\\","i","n","f","t","y">>, py |-> <<"n","p",".","i","n","f">>] >>

\* In the loops below "CASE Len(v) >= 0 ->" only makes TLC evaluate the result
\* of one iteration before the next iteration starts.

\* the three patterns of _remove_lhs, each anchored with ^
LhsPatterns == <<
    <<In({"y","Y"}), Star(In(Whitespace)), L("="), Star(In(Whitespace))>>,
    <<In({"f","F","g","G","h","H"}), Star(In(Whitespace)), L("("),
      Star(NotIn({")"})), L(")"), Star(In(Whitespace)), L("="), Star(In(Whitespace))>>,
    <<Plus(In(Letter)), Star(In(Whitespace)), L("="), Star(In(Whitespace))>> >>

RECURSIVE RemoveLhsLoop(_, _)
RemoveLhsLoop(expr, k) ==
    IF k > Len(LhsPatterns) THEN expr
    ELSE LET stripped == ReSubStart(LhsPatterns[k], <<>>, expr)
         IN  CASE Len(stripped) >= 0 -> RemoveLhsLoop(stripped, k + 1)

_remove_lhs(expr) == Strip(RemoveLhsLoop(expr, 1))

max_iterations == 10

FracPattern ==
    Lits(<<"\\","f","r","a","c","{">>) \o Grp(1, <<Plus(NotIn({"{","}"}))>>)
    \o Lits(<<"}","{">>) \o Grp(2, <<Plus(NotIn({"{","}"}))>>) \o Lits(<<"}">>)

RECURSIVE FractionsLoop(_, _)
FractionsLoop(expr, left) ==
    IF left = 0 THEN expr
    ELSE LET go(match) ==
                 IF ~match.ok THEN expr
                 ELSE FractionsLoop(
                          SubSeq(expr, 1, match.start - 1)
                          \o <<"(","(">> \o match.g1 \o <<")","/","(">> \o match.g2
                          \o <<")",")">> \o SubSeq(expr, match.end, Len(expr)),
                          left - 1)
         IN  go(SearchFrom(FracPattern, expr, 1))

\* a rewrite without the fraction step
FractionsKept(expr) == expr

\* a loop that runs once more than max_iterations
FractionsLoopOnceMore(expr) == FractionsLoop(expr, max_iterations + 1)

_convert_fractions(expr) == FractionsLoop(expr, max_iterations)

_add_implicit_multiplication(expr) ==
    LET star == <<"\\1","*","\\2">>
        r1 == ReSub(Grp(1, <<In(Digit)>>) \o Grp(2, <<In(Letter)>>), star, expr)
        r2 == ReSub(Grp(1, <<In(Letter)>>) \o Grp(2, <<L("(")>>), star, r1)
        r3 == ReSub(Grp(1, <<L(")")>>) \o Grp(2, <<In(Letter)>>), star, r2)
        r4 == ReSub(Grp(1, <<L(")")>>) \o Grp(2, <<L("(")>>), star, r3)
        r5 == ReSub(Grp(1, <<In(Digit)>>) \o Grp(2, <<L("(")>>), star, r4)
        r6 == ReSub(Grp(1, <<L(")")>>) \o Grp(2, <<In(Digit)>>), star, r5)
    IN  ReSub(Grp(1, <<L("n"), L("p"), L("."), Plus(In(Lower))>>) \o <<L("*"), L("(")>>,
              <<"\\1","(">>, r6)

\* 'cot' in latex_func or 'sec' in latex_func or 'csc' in latex_func
\* a mapping that closes every call with one parenthesis
NoExtraParen(latex_func) == FALSE

NeedsExtraParen(latex_func) ==
    \/ Contains(latex_func, <<"c","o","t">>)
    \/ Contains(latex_func, <<"s","e","c">>)
    \/ Contains(latex_func, <<"c","s","c">>)

\* one iteration of the loop over FUNCTION_MAP (Step 7)
ReplaceFunction(expr, fm) ==
    LET close == IF NeedsExtraParen(fm.latex) THEN <<")",")">> ELSE <<")">>
        repl == fm.py \o <<"(","\\1">> \o close
        braced == ReSub(Lits(fm.latex) \o <<L("{")>> \o Grp(1, <<Plus(NotIn({"}"}))>>)
                        \o <<L("}")>>, repl, expr)
        parens == ReSub(Lits(fm.latex) \o <<L("(")>> \o Grp(1, <<Plus(NotIn({")"}))>>)
                        \o <<L(")")>>, repl, braced)
    IN  ReSub(Lits(fm.latex) \o <<Plus(In(Whitespace))>>
              \o Grp(1, <<Plus(In(Letter \cup Digit))>>), repl, parens)

RECURSIVE ReplaceFunctions(_, _)
ReplaceFunctions(expr, k) ==
    IF k > Len(FUNCTION_MAP) THEN expr
    ELSE LET replaced == ReplaceFunction(expr, FUNCTION_MAP[k])
         IN  CASE Len(replaced) >= 0 -> ReplaceFunctions(replaced, k + 1)

RECURSIVE ReplaceConstants(_, _)
ReplaceConstants(expr, k) ==
    IF k > Len(CONSTANT_MAP) THEN expr
    ELSE LET replaced == ReSub(Lits(CONSTANT_MAP[k].latex), CONSTANT_MAP[k].py, expr)
         IN  CASE Len(replaced) >= 0 -> ReplaceConstants(replaced, k + 1)

\* a step 11 that leaves the braces in the text
BracesKept(expr) == expr

\* expr.replace('{', '(').replace('}', ')')
BracesToParentheses(expr) ==
    [i \in 1..Len(expr) |->
        IF expr[i] = "{" THEN "(" ELSE IF expr[i] = "}" THEN ")" ELSE expr[i]]

\* Steps 2 to 12, on the result s1 of Step 1
ConvertAfterFractions(s1) ==
    LET s2  == ReSub(Lits(<<"^","{">>) \o Grp(1, <<Plus(NotIn({"}"}))>>) \o <<L("}")>>,
                     <<"*","*","(","\\1",")">>, s1)
        s3a == ReSub(<<L("^")>> \o Grp(1, <<Plus(In(Digit))>>), <<"*","*","\\1">>, s2)
        s3  == ReSub(<<L("^")>> \o Grp(1, <<In(Letter)>>), <<"*","*","\\1">>, s3a)
        s4a == ReSub(Lits(<<"\\","s","q","r","t","{">>) \o Grp(1, <<Plus(NotIn({"}"}))>>)
                     \o <<L("}")>>,
                     <<"n","p",".","s","q","r","t","(","\\1",")">>, s3)
        s4  == ReSub(Lits(<<"\\","s","q","r","t">>) \o <<Star(In(Whitespace))>>
                     \o Grp(1, <<In(WordChar)>>),
                     <<"n","p",".","s","q","r","t","(","\\1",")">>, s4a)
        s5  == ReSub(Lits(<<"\\","s","q","r","t","[">>) \o Grp(1, <<Plus(NotIn({"]"}))>>)
                     \o Lits(<<"]","{">>) \o Grp(2, <<Plus(NotIn({"}"}))>>) \o <<L("}")>>,
                     <<"(","(","\\2",")",")","*","*","(","1","/","(","\\1",")",")">>, s4)
        s6a == ReSub(Lits(<<"e","*","*","(">>) \o Grp(1, <<Plus(NotIn({")"}))>>)
                     \o <<L(")")>>,
                     <<"n","p",".","e","x","p","(","\\1",")">>, s5)
        s6  == ReSub(Lits(<<"e","*","*">>) \o Grp(1, <<Plus(In(WordChar))>>),
                     <<"n","p",".","e","x","p","(","\\1",")">>, s6a)
        s7  == ReplaceFunctions(s6, 1)
        s8  == ReplaceConstants(s7, 1)
        s9  == _add_implicit_multiplication(s8)
        s10 == ReSub(<<L("\\"), Plus(In(Letter))>>, <<>>, s9)
        s11 == ReSub(<<Plus(In(Whitespace))>>, <<>>, BracesToParentheses(s10))
    IN  ReSub(<<L("|")>> \o Grp(1, <<Plus(NotIn({"|"}))>>) \o <<L("|")>>,
              <<"n","p",".","a","b","s","(","\\1",")">>, s11)

_convert_latex_to_python(expr0) == ConvertAfterFractions(_convert_fractions(expr0))

\* ------------------------------------------- compile(expr, ..., 'eval')
\* The tokens and the grammar of Python expressions, for the characters the
\* model's inputs are made of: names, numbers, ( ) . + - * / // ** ^ | = :=
\* and the backslash.  There is no whitespace left when compile is called
\* (Step 11), and an underscore reaches it only doubled, which the forbidden
\* pattern check rejects first.

RadixDigits(c) ==
    IF c \in {"x","X"} THEN Digit \cup {"a","b","c","d","e","f","A","B","C","D","E","F"}
    ELSE IF c \in {"o","O"} THEN {"0","1","2","3","4","5","6","7"}
    ELSE {"0","1"}

RadixBase(c) == IF c \in {"x","X"} THEN 16 ELSE IF c \in {"o","O"} THEN 8 ELSE 2

Tok(type, chars) == [t |-> type, v |-> chars]

CharAt(s, j) == IF j <= Len(s) THEN s[j] ELSE ""

\* the end of the fraction, the exponent and the imaginary suffix that may
\* follow at a, each
FractionEnd(s, a) == IF CharAt(s, a) = "." THEN RunEnd(In(Digit), s, a + 1) ELSE a

ExponentEnd(s, b) ==
    LET sign == IF CharAt(s, b + 1) \in {"+","-"} THEN b + 2 ELSE b + 1
    IN  IF CharAt(s, b) \in {"e","E"} /\ RunEnd(In(Digit), s, sign) > sign
        THEN RunEnd(In(Digit), s, sign) ELSE b

\* the number from i to d - 1, a - 1 the end of its first digits, is a literal:
\* no word character follows it, and a decimal integer of several digits
\* has no leading zero unless it is zero
NumberEnds(s, i, a, d) ==
    LET LeadingZero(int) ==
            Len(int) > 1 /\ int[1] = "0" /\ \E k \in 1..Len(int) : int[k] # "0"
    IN  IF CharAt(s, d) \in WordChar \/ (d = a /\ LeadingZero(SubSeq(s, i, a - 1)))
        THEN 0 ELSE d

\* the end of the number that starts at i, or 0 for an invalid literal
NumberEnd(s, i) ==
    LET \* the digits after the radix prefix end at j
        RadixEnds(j) == IF j = i + 2 \/ CharAt(s, j) \in WordChar THEN 0 ELSE j
        ImaginaryEnd(c) == IF CharAt(s, c) \in {"j","J"} THEN c + 1 ELSE c
        DecimalEnd(a) ==
            NumberEnds(s, i, a, ImaginaryEnd(ExponentEnd(s, FractionEnd(s, a))))
    IN  IF CharAt(s, i) = "0" /\ CharAt(s, i + 1) \in {"x","X","o","O","b","B"}
        THEN RadixEnds(RunEnd(In(RadixDigits(CharAt(s, i + 1))), s, i + 2))
        ELSE DecimalEnd(RunEnd(In(Digit), s, i))

\* the token from i to e - 1 and the position after it; an invalid token
\* (e = 0) is the last one
LexFrom(s, i, type, e) ==
    IF e = 0 THEN [toks |-> <<Tok("err", <<s[i]>>)>>, pos |-> Len(s) + 1]
    ELSE [toks |-> <<Tok(type, SubSeq(s, i, e - 1))>>, pos |-> e]

\* the tokens of s from position i on: n tokens are the first half of them
\* and then the rest, and s has at most Len(s) tokens
Lex(s, i) ==
    LET one(j, c, c2) ==
            IF c \in Digit \/ (c = "." /\ c2 \in Digit)
            THEN LexFrom(s, j, "num", NumberEnd(s, j))
            ELSE IF c \in Letter \cup {"_"}
            THEN LexFrom(s, j, "name", RunEnd(In(WordChar), s, j))
            ELSE IF (c = "*" /\ c2 = "*") \/ (c = "/" /\ c2 = "/") \/ (c = ":" /\ c2 = "=")
            THEN LexFrom(s, j, "op", j + 2)
            ELSE IF c = "=" /\ c2 = "=" THEN LexFrom(s, j, "err", 0)
            ELSE IF c \in {"(", ")", ".", "+", "-", "*", "/", "^", "|", "="}
            THEN LexFrom(s, j, "op", j + 1)
            ELSE LexFrom(s, j, "err", 0)
        RECURSIVE Tokens(_, _)
        Tokens(j, n) ==
            IF j > Len(s) THEN [toks |-> <<>>, pos |-> j]
            ELSE IF n <= 1 THEN one(j, s[j], CharAt(s, j + 1))
            ELSE LET rest(a, b) == [toks |-> a.toks \o b.toks, pos |-> b.pos]
                     then(a) == rest(a, Tokens(a.pos, n - n \div 2))
                 IN  then(Tokens(j, n \div 2))
    IN  Tokens(i, Len(s)).toks

\* the keywords of Python: a name that is one of them is not an identifier
Keywords == {
    <<"i","f">>, <<"i","n">>, <<"i","s">>, <<"o","r">>, <<"a","s">>, <<"a","n","d">>,
    <<"n","o","t">>, <<"f","o","r">>, <<"d","e","f">>, <<"d","e","l">>, <<"t","r","y">>,
    <<"e","l","s","e">>, <<"e","l","i","f">>, <<"f","r","o","m">>, <<"w","i","t","h">>,
    <<"p","a","s","s">>, <<"N","o","n","e">>, <<"T","r","u","e">>,
    <<"F","a","l","s","e">>, <<"l","a","m","b","d","a">>, <<"i","m","p","o","r","t">> }

\* The compiled expression is the sequence of the operations the evaluation
\* performs, in the order Python performs them (operands left to right,
\* then the operator).
Instr(op, id) == [op |-> op, id |-> id]

Fail == [ok |-> FALSE, pos |-> 0, code |-> <<>>]
Parsed(pos, code) == [ok |-> TRUE, pos |-> pos, code |-> code]

IsOp(tk, i, o) == i <= Len(tk) /\ tk[i].t = "op" /\ tk[i].v = o
IsName(tk, i) == i <= Len(tk) /\ tk[i].t = "name" /\ tk[i].v \notin Keywords

RECURSIVE PBin(_, _, _)
RECURSIVE PBinTail(_, _, _, _)
RECURSIVE PFactor(_, _)
RECURSIVE PPrimary(_, _)
RECURSIVE PTrailers(_, _, _)
RECURSIVE PAtom(_, _)

\* the parse r with code put before and after its code
Around(before, r, after) ==
    IF r.ok THEN Parsed(r.pos, before \o r.code \o after) ELSE Fail

\* expression
PExpr(tk, i) == PBin(1, tk, i)

\* the operators of the level after the operand r
PBinRest(level, tk, r) == IF r.ok THEN PBinTail(level, tk, r.pos, r.code) ELSE Fail

PBin(level, tk, i) ==
    IF level > 4 THEN PFactor(tk, i)
    ELSE PBinRest(level, tk, PBin(level + 1, tk, i))

\* the binary operators by precedence level, loosest first
PBinTail(level, tk, i, code) ==
    LET LevelOps == CASE level = 1 -> {<<"|">>}
                      [] level = 2 -> {<<"^">>}
                      [] level = 3 -> {<<"+">>, <<"-">>}
                      [] level = 4 -> {<<"*">>, <<"/">>, <<"/","/">>}
    IN  IF i <= Len(tk) /\ tk[i].t = "op" /\ tk[i].v \in LevelOps
        THEN PBinRest(level, tk,
                 Around(code, PBin(level + 1, tk, i + 1), <<Instr("bin", tk[i].v)>>))
        ELSE Parsed(i, code)

\* power: primary ['**' factor], after the primary p
PPower(tk, p) ==
    IF p.ok /\ IsOp(tk, p.pos, <<"*","*">>)
    THEN Around(p.code, PFactor(tk, p.pos + 1), <<Instr("bin", <<"*","*">>)>>)
    ELSE p

\* factor: '+' factor | '-' factor | power
PFactor(tk, i) ==
    IF IsOp(tk, i, <<"+">>) \/ IsOp(tk, i, <<"-">>)
    THEN Around(<<>>, PFactor(tk, i + 1), <<Instr("unary", tk[i].v)>>)
    ELSE PPower(tk, PPrimary(tk, i))

\* the trailers after the parse r
PTrailersOf(tk, r) == IF r.ok THEN PTrailers(tk, r.pos, r.code) ELSE Fail

\* primary: atom ('.' NAME | '(' [argument] ')')*
PPrimary(tk, i) == PTrailersOf(tk, PAtom(tk, i))

\* the closing parenthesis after the parse r
Closed(tk, r) == IF r.ok /\ IsOp(tk, r.pos, <<")">>) THEN Parsed(r.pos + 1, r.code) ELSE Fail

\* NAME ':=' at i
IsWalrus(tk, i) == IsName(tk, i) /\ IsOp(tk, i + 1, <<":","=">>)

\* the one argument of a call whose '(' is at i - 1: NAME '=' expression,
\* NAME ':=' expression, '*' expression, '**' expression or expression
PArgument(tk, i) ==
    LET keyword == IsName(tk, i) /\ IsOp(tk, i + 1, <<"=">>)
        star == IsOp(tk, i, <<"*">>)
        starstar == IsOp(tk, i, <<"*","*">>)
        start == IF keyword \/ IsWalrus(tk, i) THEN i + 2
                 ELSE IF star \/ starstar THEN i + 1 ELSE i
        store == IF IsWalrus(tk, i) THEN <<Instr("store", tk[i].v)>> ELSE <<>>
        kind == IF keyword \/ starstar THEN "callkw" ELSE IF star THEN "callstar" ELSE "call"
    IN  Around(<<>>, PExpr(tk, start), store \o <<Instr(kind, <<>>)>>)

PTrailers(tk, i, code) ==
    IF IsOp(tk, i, <<".">>)
    THEN IF IsName(tk, i + 1)
         THEN PTrailers(tk, i + 2, code \o <<Instr("attr", tk[i + 1].v)>>)
         ELSE Fail
    ELSE IF IsOp(tk, i, <<"(">>)
    THEN IF IsOp(tk, i + 1, <<")">>)
         THEN PTrailers(tk, i + 2, code \o <<Instr("call0", <<>>)>>)
         ELSE PTrailersOf(tk, Closed(tk, Around(code, PArgument(tk, i + 1), <<>>)))
    ELSE Parsed(i, code)

\* atom: NAME | NUMBER | '(' ')' | '(' NAME ':=' expression ')' | '(' expression ')'
PAtom(tk, i) ==
    IF IsName(tk, i) THEN Parsed(i + 1, <<Instr("name", tk[i].v)>>)
    ELSE IF i <= Len(tk) /\ tk[i].t = "num" THEN Parsed(i + 1, <<Instr("const", tk[i].v)>>)
    ELSE IF IsOp(tk, i, <<"(">>)
    THEN IF IsOp(tk, i + 1, <<")">>) THEN Parsed(i + 2, <<Instr("tuple", <<>>)>>)
         ELSE IF IsWalrus(tk, i + 1)
         THEN Closed(tk, Around(<<>>, PExpr(tk, i + 3), <<Instr("store", tk[i + 1].v)>>))
         ELSE Closed(tk, PExpr(tk, i + 1))
    ELSE Fail

\* compile(expr, '<string>', 'eval'): ok is FALSE for a SyntaxError, which
\* is raised unless the tokens are one expression and nothing more
Compile(expr) ==
    LET WholeInput(tk, r) ==
            IF r.ok /\ r.pos = Len(tk) + 1 THEN [ok |-> TRUE, code |-> r.code]
            ELSE [ok |-> FALSE, code |-> <<>>]
        CompileTokens(tk) == WholeInput(tk, PExpr(tk, 1))
    IN  CompileTokens(Lex(expr, 1))

\* ------------------------------------------------- _validate_expression

dangerous == <<
    <<"i","m","p","o","r","t">>, <<"e","x","e","c">>, <<"e","v","a","l">>,
    <<"o","p","e","n">>, <<"f","i","l","e">>, <<"_","_">>, <<"o","s",".">>,
    <<"s","y","s",".">> >>

\* the scan without the lower-casing of line 219
HasDangerousAsWritten(expr) == \E k \in 1..Len(dangerous) : Contains(expr, dangerous[k])

HasDangerous(expr) == \E k \in 1..Len(dangerous) : Contains(StrLower(expr), dangerous[k])

\* a validator that counts the parentheses before it scans for the patterns
ValidateBalanceFirst(expr) ==
    IF Count(expr, "(") # Count(expr, ")") THEN "unbalanced"
    ELSE IF HasDangerous(expr) THEN "contains"
    ELSE IF ~Compile(expr).ok THEN "syntax"
    ELSE "ok"

\* the reason of the EquationParseError raised, or "ok"
_validate_expression(expr) ==
    IF HasDangerous(expr) THEN "contains"
    ELSE IF Count(expr, "(") # Count(expr, ")") THEN "unbalanced"
    ELSE IF ~Compile(expr).ok THEN "syntax"
    ELSE "ok"

\* parse without the call of _validate_expression of line 87
ParseUnvalidated(latex) ==
    IF latex = <<>> \/ Strip(latex) = <<>> THEN [err |-> "empty", expr |-> <<>>]
    ELSE [err |-> "ok", expr |-> _convert_latex_to_python(_remove_lhs(Strip(latex)))]

\* EquationParser.parse: [err, expr], err the reason of the error or "ok"
ParserParse(latex) ==
    IF latex = <<>> \/ Strip(latex) = <<>> THEN [err |-> "empty", expr |-> <<>>]
    ELSE LET validated(expr) == [err |-> _validate_expression(expr), expr |-> expr]
         IN  validated(_convert_latex_to_python(_remove_lhs(Strip(latex))))

\* ------------------------------------------------------------- numbers
\* A float is nan, an infinity, an exact rational n/d, or a finite value the
\* model does not compute (the result of a transcendental function, or a
\* rational that needs more digits than FloatMax): the latter is kept as
\* the term that produced it, and neither its sign nor its being zero is
\* known.  FloatMax stands for the largest finite float; no negative zero.

FloatMax == 10000

Num(n, d) == [t |-> "num", n |-> n, d |-> d, s |-> <<>>]
NaN == [t |-> "nan", n |-> 0, d |-> 1, s |-> <<>>]
Inf(sign) == [t |-> "inf", n |-> sign, d |-> 1, s |-> <<>>]
Sym(term) == [t |-> "sym", n |-> 0, d |-> 1, s |-> term]
Zero == Num(0, 1)
One == Num(1, 1)

Abs(n) == IF n < 0 THEN -n ELSE n
Sgn(n) == IF n < 0 THEN -1 ELSE IF n > 0 THEN 1 ELSE 0

RECURSIVE GCD(_, _)
GCD(a, b) == IF b = 0 THEN a ELSE GCD(b, a % b)

\* the float nearest to n/d (d # 0)
Rounded(sign, n1, d1) ==
    IF n1 \div d1 > FloatMax \/ (n1 \div d1 = FloatMax /\ n1 % d1 > 0) THEN Inf(sign)
    ELSE IF d1 \div n1 > FloatMax \/ (d1 \div n1 = FloatMax /\ d1 % n1 > 0) THEN Zero
    ELSE IF n1 > FloatMax \/ d1 > FloatMax THEN Sym(<<"rounded">>)
    ELSE Num(sign * n1, d1)

Norm(n, d) ==
    IF n = 0 THEN Zero
    ELSE Rounded(Sgn(n) * Sgn(d), Abs(n) \div GCD(Abs(n), Abs(d)),
                 Abs(d) \div GCD(Abs(n), Abs(d)))

IsNum(a) == a.t = "num"
IsZero(a) == a.t = "num" /\ a.n = 0
IsInteger(a) == a.t = "num" /\ a.d = 1
\* the sign, +1 for a value whose sign is not known
SignOf(a) == IF a.t \in {"num", "inf"} THEN Sgn(a.n) ELSE 1

Term(a) ==
    IF a.t = "num" THEN <<ToString(a.n), "/", ToString(a.d)>>
    ELSE IF a.t = "sym" THEN a.s
    ELSE IF a.t = "inf" THEN <<ToString(a.n), "inf">>
    ELSE <<"nan">>

SymOp(o, a, b) == Sym(<<"(">> \o Term(a) \o o \o Term(b) \o <<")">>)

NegS(a) ==
    IF a.t \in {"num", "inf"} THEN [a EXCEPT !.n = -a.n]
    ELSE IF a.t = "sym" THEN Sym(<<"-">> \o a.s)
    ELSE a

AddS(a, b) ==
    IF a.t = "nan" \/ b.t = "nan" THEN NaN
    ELSE IF a.t = "inf" /\ b.t = "inf" THEN (IF a.n = b.n THEN a ELSE NaN)
    ELSE IF a.t = "inf" THEN a
    ELSE IF b.t = "inf" THEN b
    ELSE IF a.t = "sym" \/ b.t = "sym" THEN SymOp(<<"+">>, a, b)
    ELSE Norm(a.n * b.d + b.n * a.d, a.d * b.d)

MulS(a, b) ==
    IF a.t = "nan" \/ b.t = "nan" THEN NaN
    ELSE IF a.t = "inf" \/ b.t = "inf"
    THEN (IF IsZero(a) \/ IsZero(b) THEN NaN ELSE Inf(SignOf(a) * SignOf(b)))
    ELSE IF IsZero(a) \/ IsZero(b) THEN Zero
    ELSE IF a.t = "sym" \/ b.t = "sym" THEN SymOp(<<"*">>, a, b)
    ELSE Norm(a.n * b.n, a.d * b.d)

\* IEEE division: x/0 is an infinity, 0/0 is nan
DivS(a, b) ==
    IF a.t = "nan" \/ b.t = "nan" THEN NaN
    ELSE IF IsZero(b) THEN (IF IsZero(a) THEN NaN ELSE Inf(SignOf(a)))
    ELSE IF b.t = "inf" THEN (IF a.t = "inf" THEN NaN ELSE Zero)
    ELSE IF a.t = "inf" THEN Inf(SignOf(a) * SignOf(b))
    ELSE IF IsZero(a) THEN Zero
    ELSE IF a.t = "sym" \/ b.t = "sym" THEN SymOp(<<"/">>, a, b)
    ELSE Norm(a.n * b.d, a.d * b.n)

FloorS(a) ==
    IF a.t = "num" THEN Num(a.n \div a.d, 1)
    ELSE IF a.t = "sym" THEN Sym(<<"floor", "(">> \o a.s \o <<")">>)
    ELSE a

FloorDivS(a, b) ==
    IF a.t = "inf" /\ ~IsZero(b) THEN NaN
    ELSE IF IsNum(a) /\ b.t = "inf"
    THEN (IF IsZero(a) \/ SignOf(a) = SignOf(b) THEN Zero ELSE Num(-1, 1))
    ELSE FloorS(DivS(a, b))

\* a ** k for an integer k >= 0, by repeated squaring
RECURSIVE PowNat(_, _)
PowNat(a, k) ==
    IF k = 0 THEN One
    ELSE LET square(h) == IF k % 2 = 0 THEN MulS(h, h) ELSE MulS(a, MulS(h, h))
         IN  square(PowNat(a, k \div 2))

\* IEEE pow; a negative base with a fractional exponent gives nan
PowS(a, b) ==
    IF IsZero(b) \/ a = One THEN One
    ELSE IF a.t = "nan" \/ b.t = "nan" THEN NaN
    ELSE IF b.t = "inf"
    THEN (IF a.t = "sym" THEN SymOp(<<"*","*">>, a, b)
          ELSE IF a = Num(-1, 1) THEN One
          ELSE IF (a.t = "inf" \/ Abs(a.n) > a.d) = (b.n > 0) THEN Inf(1) ELSE Zero)
    ELSE IF a.t = "sym" \/ b.t = "sym" THEN SymOp(<<"*","*">>, a, b)
    ELSE IF IsInteger(b)
    THEN (IF a.t = "inf"
          THEN (IF b.n < 0 THEN Zero ELSE Inf(IF a.n < 0 /\ b.n % 2 = 1 THEN -1 ELSE 1))
          ELSE IF b.n > 0 THEN (IF a.n = -a.d THEN Num(IF b.n % 2 = 1 THEN -1 ELSE 1, 1)
                                ELSE PowNat(a, b.n))
          ELSE IF IsZero(a) THEN Inf(1)
          ELSE IF a.n = -a.d THEN Num(IF b.n % 2 = 1 THEN -1 ELSE 1, 1)
          ELSE DivS(One, PowNat(a, -b.n)))
    ELSE IF a.t = "inf" THEN (IF b.n > 0 THEN Inf(1) ELSE Zero)
    ELSE IF SignOf(a) < 0 THEN NaN
    ELSE IF IsZero(a) THEN (IF b.n > 0 THEN Zero ELSE Inf(1))
    ELSE SymOp(<<"*","*">>, a, b)

\* bitwise operators on the integers (two's complement, any width)
RECURSIVE BitOp(_, _, _)
BitOp(o, a, b) ==
    IF a \in {0, -1} /\ b \in {0, -1}
    THEN (IF o = "^" THEN (IF a = b THEN 0 ELSE -1)
          ELSE (IF a = -1 \/ b = -1 THEN -1 ELSE 0))
    ELSE LET bit == IF o = "^" THEN (IF a % 2 = b % 2 THEN 0 ELSE 1)
                    ELSE (IF a % 2 = 1 \/ b % 2 = 1 THEN 1 ELSE 0)
         IN  2 * BitOp(o, a \div 2, b \div 2) + bit

\* one arithmetic operator on two floats, as IEEE arithmetic defines it
ArithS(o, a, b) ==
    CASE o = <<"+">> -> AddS(a, b)
      [] o = <<"-">> -> AddS(a, NegS(b))
      [] o = <<"*">> -> MulS(a, b)
      [] o = <<"/">> -> DivS(a, b)
      [] o = <<"/","/">> -> FloorDivS(a, b)
      [] o = <<"*","*">> -> PowS(a, b)

\* ------------------------------------------------------- Python values
\* k: "int" and "float" (Python numbers), "np" (a NumPy scalar), "arr" (a
\* one-dimensional float array), "fn" (a NumPy function, id its name), "mod"
\* (the numpy module), "none", "tuple" (the empty tuple) and "exc" (a raised
\* exception, id its class).

Val(k, v, a, id) == [k |-> k, v |-> v, a |-> a, id |-> id]
PyInt(v) == Val("int", v, <<>>, <<>>)
PyFloat(v) == Val("float", v, <<>>, <<>>)
NpScalar(v) == Val("np", v, <<>>, <<>>)
Arr(a) == Val("arr", Zero, a, <<>>)
Fn(id) == Val("fn", Zero, <<>>, id)
NumpyModule == Val("mod", Zero, <<>>, <<>>)
NoneValue == Val("none", Zero, <<>>, <<>>)
EmptyTuple == Val("tuple", Zero, <<>>, <<>>)
Exc(class) == Val("exc", Zero, <<>>, <<class>>)

IsExc(x) == x.k = "exc"

\* what numpy has: the functions FUNCTION_MAP maps to, the constants
\* CONSTANT_MAP maps to, and everything else of the module, of which
\* floor stands for the functions and nan for the constants
WhitelistedFunctions == {
    <<"s","i","n">>, <<"c","o","s">>, <<"t","a","n">>,
    <<"a","r","c","s","i","n">>, <<"a","r","c","c","o","s">>, <<"a","r","c","t","a","n">>,
    <<"s","i","n","h">>, <<"c","o","s","h">>, <<"t","a","n","h">>,
    <<"l","o","g">>, <<"l","o","g","1","0">>, <<"e","x","p">>,
    <<"s","q","r","t">>, <<"a","b","s">> }
WhitelistedConstants == {<<"p","i">>, <<"e">>, <<"i","n","f">>}

ConstantValue(id) ==
    IF id = <<"i","n","f">> THEN Inf(1)
    ELSE IF id = <<"n","a","n">> THEN NaN
    ELSE Sym(id)

\* getattr(np, id)
NumpyAttr(id) ==
    IF id \in WhitelistedFunctions \cup {<<"f","l","o","o","r">>} THEN Fn(id)
    ELSE IF id \in WhitelistedConstants \cup {<<"n","a","n">>}
    THEN PyFloat(ConstantValue(id))
    ELSE Exc("AttributeError")

\* the smallest k with k * k >= n
RECURSIVE SqrtFrom(_, _)
SqrtFrom(n, k) == IF k * k >= n THEN k ELSE SqrtFrom(n, k + 1)

SqrtS(x) ==
    LET rn == SqrtFrom(x.n, 0)
        rd == SqrtFrom(x.d, 0)
    IN  IF x.n < 0 THEN NaN
        ELSE IF rn * rn = x.n /\ rd * rd = x.d THEN Num(rn, rd)
        ELSE Sym(<<"sqrt", "(">> \o Term(x) \o <<")">>)

\* a NumPy function on one float: exact where the result is a rational,
\* nan or an infinity outside the domain, a term otherwise
ApplyFn(id, x) ==
    LET term == Sym(id \o <<"(">> \o Term(x) \o <<")">>)
        nanAtInf == {<<"s","i","n">>, <<"c","o","s">>, <<"t","a","n">>,
                     <<"a","r","c","s","i","n">>, <<"a","r","c","c","o","s">>}
        zeroAtZero == {<<"s","i","n">>, <<"t","a","n">>, <<"a","r","c","s","i","n">>,
                       <<"a","r","c","t","a","n">>, <<"s","i","n","h">>, <<"t","a","n","h">>}
        oneAtZero == {<<"c","o","s">>, <<"c","o","s","h">>, <<"e","x","p">>}
        logs == {<<"l","o","g">>, <<"l","o","g","1","0">>}
    IN  IF x.t = "nan" THEN NaN
        ELSE IF id = <<"a","b","s">>
        THEN (IF x.t = "sym" THEN term ELSE [x EXCEPT !.n = Abs(x.n)])
        ELSE IF id = <<"f","l","o","o","r">> THEN FloorS(x)
        ELSE IF x.t = "sym" THEN term
        ELSE IF x.t = "inf"
        THEN (IF id \in nanAtInf THEN NaN
              ELSE IF id = <<"a","r","c","t","a","n">> THEN term
              ELSE IF id = <<"s","i","n","h">> THEN x
              ELSE IF id = <<"c","o","s","h">> THEN Inf(1)
              ELSE IF id = <<"t","a","n","h">> THEN Num(x.n, 1)
              ELSE IF id = <<"e","x","p">> THEN (IF x.n > 0 THEN x ELSE Zero)
              ELSE IF x.n > 0 THEN x ELSE NaN)
        ELSE IF id = <<"s","q","r","t">> THEN SqrtS(x)
        ELSE IF id \in logs
        THEN (IF x.n < 0 THEN NaN ELSE IF x.n = 0 THEN Inf(-1)
              ELSE IF x = One THEN Zero
              ELSE IF id = <<"l","o","g","1","0">> /\ x = Num(10, 1) THEN One
              ELSE term)
        ELSE IF id \in {<<"a","r","c","s","i","n">>, <<"a","r","c","c","o","s">>}
                /\ Abs(x.n) > x.d THEN NaN
        ELSE IF id = <<"a","r","c","c","o","s">> /\ x = One THEN Zero
        ELSE IF id \in zeroAtZero /\ x.n = 0 THEN Zero
        ELSE IF id \in oneAtZero /\ x.n = 0 THEN One
        ELSE IF id = <<"e","x","p">> /\ x.n >= 710 * x.d THEN Inf(1)
        ELSE term

IsArrayLike(x) == x.k \in {"arr", "tuple"}
Elems(x) == IF x.k = "arr" THEN x.a ELSE IF x.k = "tuple" THEN <<>> ELSE <<x.v>>

\* f(arg) for a NumPy function f and one positional argument
CallFn(id, arg) ==
    IF arg.k \in {"int", "float", "np"} THEN NpScalar(ApplyFn(id, arg.v))
    ELSE IF IsArrayLike(arg)
    THEN Arr([i \in 1..Len(Elems(arg)) |-> ApplyFn(id, Elems(arg)[i])])
    ELSE Exc("TypeError")

BitOps == {<<"^">>, <<"|">>}

\* a binary operator on two Python numbers, r the arithmetic result
PyResult(o, x, y, r) ==
    LET bothInt == x.k = "int" /\ y.k = "int"
        int == bothInt /\ (o \in {<<"+">>, <<"-">>, <<"*">>, <<"/","/">>}
                           \/ (o = <<"*","*">> /\ SignOf(y.v) >= 0))
    IN  IF o \in {<<"/">>, <<"/","/">>} /\ IsZero(y.v) THEN Exc("ZeroDivisionError")
        ELSE IF o = <<"*","*">> /\ IsZero(x.v) /\ IsNum(y.v) /\ y.v.n < 0
        THEN Exc("ZeroDivisionError")
        ELSE IF o = <<"*","*">> /\ IsNum(x.v) /\ x.v.n < 0 /\ IsNum(y.v) /\ y.v.d # 1
        THEN PyFloat(SymOp(o, x.v, y.v))
        ELSE IF o = <<"*","*">> /\ IsNum(x.v) /\ IsNum(y.v) /\ r.t = "inf"
        THEN Exc("OverflowError")
        ELSE IF int THEN PyInt(r) ELSE PyFloat(r)

PyBinary(o, x, y) ==
    IF o \in BitOps
    THEN (IF x.k # "int" \/ y.k # "int" THEN Exc("TypeError")
          ELSE IF IsNum(x.v) /\ IsNum(y.v)
          THEN PyInt(Norm(BitOp(o[1], x.v.n, y.v.n), 1))
          ELSE PyInt(SymOp(o, x.v, y.v)))
    ELSE PyResult(o, x, y, ArithS(o, x.v, y.v))

\* a binary operator with a NumPy operand: elementwise, with broadcasting
NpBinary(o, x, y) ==
    LET ex == Elems(x)
        ey == Elems(y)
        n == IF ~IsArrayLike(x) THEN Len(ey)
             ELSE IF ~IsArrayLike(y) THEN Len(ex)
             ELSE IF Len(ex) = 1 THEN Len(ey) ELSE Len(ex)
        fits == ~IsArrayLike(x) \/ ~IsArrayLike(y) \/ Len(ex) = Len(ey)
                \/ Len(ex) = 1 \/ Len(ey) = 1
        \* the elementwise results as the array or the scalar the operands give
        NpResult(r) == IF IsArrayLike(x) \/ IsArrayLike(y) THEN Arr(r) ELSE NpScalar(r[1])
    IN  IF o \in BitOps THEN Exc("TypeError")
        ELSE IF ~fits THEN Exc("ValueError")
        ELSE NpResult([i \in 1..n |->
                 ArithS(o, IF Len(ex) = 1 THEN ex[1] ELSE ex[i],
                           IF Len(ey) = 1 THEN ey[1] ELSE ey[i])])

Binary(o, x, y) ==
    IF {x.k, y.k} \cap {"fn", "mod", "none"} # {} THEN Exc("TypeError")
    ELSE IF {x.k, y.k} \cap {"np", "arr"} # {} THEN NpBinary(o, x, y)
    ELSE IF x.k = "tuple" \/ y.k = "tuple"
    THEN (IF \/ (o = <<"+">> /\ x.k = y.k)
             \/ (o = <<"*">> /\ "int" \in {x.k, y.k})
          THEN EmptyTuple ELSE Exc("TypeError"))
    ELSE PyBinary(o, x, y)

Unary(o, x) ==
    LET sg(s) == IF o = <<"-">> THEN NegS(s) ELSE s
    IN  IF x.k \in {"int", "float", "np"} THEN [x EXCEPT !.v = sg(x.v)]
        ELSE IF x.k = "arr" THEN Arr([i \in 1..Len(x.a) |-> sg(x.a[i])])
        ELSE Exc("TypeError")

\* ------------------------------------------------------------ literals

DigitVal(c) ==
    (CHOOSE k \in 1..16 :
        <<"0","1","2","3","4","5","6","7","8","9","a","b","c","d","e","f">>[k]
            = LowerChar(c)) - 1

\* the integer the digits denote, FloatMax + 1 for any larger one
RECURSIVE DigitsVal(_, _, _)
DigitsVal(ds, base, acc) ==
    IF ds = <<>> THEN acc
    ELSE DigitsVal(Tail(ds), base,
                   IF acc > FloatMax THEN acc ELSE acc * base + DigitVal(Head(ds)))

\* the value of the decimal number token v: a - 1 is the end of its first
\* digits, b - 1 the end of its fraction
DecimalValue(v, a, b) ==
    LET PowerOfTen(k) == PowNat(Num(10, 1), k)
        hasExp == b <= Len(v) /\ v[b] \in {"e","E"}
        e0 == IF v[b + 1] \in {"+","-"} THEN b + 2 ELSE b + 1
        exp == DigitsVal(SubSeq(v, e0, RunEnd(In(Digit), v, e0) - 1), 10, 0)
        scaled(mant) == IF ~hasExp THEN mant
                        ELSE IF v[b + 1] = "-" THEN DivS(mant, PowerOfTen(exp))
                        ELSE MulS(mant, PowerOfTen(exp))
        typed(value) == IF b > a \/ hasExp THEN PyFloat(value) ELSE PyInt(value)
    IN  typed(scaled(DivS(
            Norm(DigitsVal(SubSeq(v, 1, a - 1) \o SubSeq(v, a + 1, b - 1), 10, 0), 1),
            PowerOfTen(IF b > a THEN b - a - 1 ELSE 0))))

\* the value of a number token
NumValue(v) ==
    LET DecimalFrom(a) == DecimalValue(v, a, FractionEnd(v, a))
    IN
    IF Len(v) >= 2 /\ v[1] = "0" /\ v[2] \in {"x","X","o","O","b","B"}
    THEN PyInt(Norm(DigitsVal(SubSeq(v, 3, Len(v)), RadixBase(v[2]), 0), 1))
    ELSE IF v[Len(v)] \in {"j","J"} THEN PyFloat(Sym(v))
    ELSE DecimalFrom(RunEnd(In(Digit), v, 1))

\* ---------------------------------------------------------------- eval

\* one operation of the compiled expression on the value stack; the result
\* is the new stack and namespace, or the exception raised
Step(ins, stack, ns) ==
    LET n == Len(stack)
        top == stack[n]
        push(x) == [stack |-> Append(stack, x), ns |-> ns, exc |-> NoneValue]
        replace(k, x) ==
            IF IsExc(x) THEN [stack |-> stack, ns |-> ns, exc |-> x]
            ELSE [stack |-> Append(SubSeq(stack, 1, n - k), x), ns |-> ns, exc |-> NoneValue]
    IN  CASE ins.op = "const" -> push(NumValue(ins.id))
          [] ins.op = "tuple" -> push(EmptyTuple)
          [] ins.op = "name" ->
                IF ins.id \in DOMAIN ns THEN push(ns[ins.id])
                ELSE replace(0, Exc("NameError"))
          [] ins.op = "attr" ->
                replace(1, IF top.k = "mod" THEN NumpyAttr(ins.id) ELSE Exc("AttributeError"))
          [] ins.op = "store" ->
                [stack |-> stack,
                 ns |-> [k \in DOMAIN ns \cup {ins.id} |-> IF k = ins.id THEN top ELSE ns[k]],
                 exc |-> NoneValue]
          [] ins.op = "unary" -> replace(1, Unary(ins.id, top))
          [] ins.op = "bin" -> replace(2, Binary(ins.id, stack[n - 1], top))
          [] ins.op = "call0" -> replace(1, Exc("TypeError"))
          [] ins.op = "callkw" -> replace(2, Exc("TypeError"))
          [] ins.op = "call" ->
                replace(2, IF stack[n - 1].k = "fn" THEN CallFn(stack[n - 1].id, top)
                           ELSE Exc("TypeError"))
          [] ins.op = "callstar" ->
                replace(2, IF stack[n - 1].k = "fn" /\ top.k = "arr" /\ Len(top.a) = 1
                           THEN CallFn(stack[n - 1].id, NpScalar(top.a[1]))
                           ELSE Exc("TypeError"))

RECURSIVE Run(_, _, _, _)
Run(code, pc, stack, ns) ==
    IF pc > Len(code) THEN [val |-> stack[Len(stack)], ns |-> ns]
    ELSE LET go(r) == IF IsExc(r.exc) THEN [val |-> r.exc, ns |-> r.ns]
                      ELSE Run(code, pc + 1, r.stack, r.ns)
         IN  go(Step(code[pc], stack, ns))

\* eval(expr, {"__builtins__": {}}, ns): the value or the exception, and
\* the namespace as the evaluation leaves it
Eval(expr, ns) ==
    LET go(c) == IF c.ok THEN Run(c.code, 1, <<>>, ns)
                 ELSE [val |-> Exc("SyntaxError"), ns |-> ns]
    IN  go(Compile(expr))

\* ------------------------------------------------------ create_function

\* the namespace create_function builds for the evaluator it returns
SafeNamespace ==
    (<<"n","p">> :> NumpyModule) @@ (<<"x">> :> NoneValue)
    @@ (<<"p","i">> :> PyFloat(Sym(<<"p","i">>))) @@ (<<"e">> :> PyFloat(Sym(<<"e">>)))

NoFunc == [made |-> FALSE, expr |-> <<>>, safe_namespace |-> SafeNamespace]

\* the closure f with what it captured
create_function(expr) == [made |-> TRUE, expr |-> expr, safe_namespace |-> SafeNamespace]

\* np.full_like(x_values, v, dtype=float)
full_like(x_values, v) == Arr([i \in 1..Len(x_values) |-> v])

\* f without the try ... except of lines 252-256: the exception goes to the caller
f_uncaught(func, x_values) ==
    LET try(r) == [ret |-> r.val, raised |-> IF IsExc(r.val) THEN r.val.id[1] ELSE "",
                   ns |-> r.ns]
    IN  try(Eval(func.expr, [func.safe_namespace EXCEPT ![<<"x">>] = Arr(x_values)]))

\* one call f(x_values) of the evaluator func: what it returns, the class of
\* the exception eval raised ("" for none), and the namespace it leaves
f(func, x_values) ==
    LET try(r) ==
            IF IsExc(r.val)
            THEN [ret |-> full_like(x_values, NaN), raised |-> r.val.id[1], ns |-> r.ns]
            ELSE [ret |-> r.val, raised |-> "", ns |-> r.ns]
    IN  try(Eval(func.expr, [func.safe_namespace EXCEPT ![<<"x">>] = Arr(x_values)]))

\* ----------------------------------------------------------- the inputs

\* the longest free-form request text, in fragments
MaxFrags == 2
\* the samples of a plot (num_points, 100..2000 in the request schema)
NumPoints == 3
\* the calls a holder of an evaluator makes on it
MaxCalls == 2
\* the figures left open in matplotlib.pyplot
MaxFigures == 2

\* the equations of GET /equation/examples
Examples == <<
    <<"x","^","2">>,    \* x^2
    <<"x","^","3"," ","-"," ","x">>,    \* x^3 - x
    <<"\\","s","i","n","(","x",")">>,    \* \sin(x)
    <<"\\","c","o","s","(","x",")">>,    \* \cos(x)
    <<"\\","t","a","n","(","x",")">>,    \* \tan(x)
    <<"e","^","{","-","x","^","2","}">>,    \* e^{-x^2}
    <<"\\","f","r","a","c","{","1","}","{","x","}">>,    \* \frac{1}{x}
    <<"\\","s","q","r","t","{","x","}">>,    \* \sqrt{x}
    <<"\\","l","n","(","x",")">>,    \* \ln(x)
    <<"x","^","2"," ","+"," ","\\","s","i","n","(","x",")">>,    \* x^2 + \sin(x)
    <<"\\","f","r","a","c","{","\\","s","i","n","(","x",")","}","{","x","}">>,    \* \frac{\sin(x)}{x}
    <<"2","^","x">>    \* 2^x
    >>

\* further request texts: the forms of the docstrings, constants, and texts
\* the validator is there for
OtherInputs == <<
    <<"y"," ","="," ","x","^","2">>,    \* y = x^2
    <<"f","(","x",")"," ","="," ","2","x"," ","+"," ","1">>,    \* f(x) = 2x + 1
    <<"1","/","x">>,    \* 1/x
    <<"x","/","x">>,    \* x/x
    <<"2">>,    \* 2
    <<"\\","p","i">>,    \* \pi
    <<"n","p",".","p","i">>,    \* np.pi
    <<"\\","i","n","f","t","y">>,    \* \infty
    <<"\\","c","o","t","(","x",")">>,    \* \cot(x)
    <<"\\","l","o","g","(","x",")">>,    \* \log(x)
    <<"|","x","|">>,    \* |x|
    <<"\\","s","q","r","t","{","-","1","}">>,    \* \sqrt{-1}
    <<"y">>,    \* y
    <<"x","^","(","2",")">>,    \* x^(2)
    <<"n","p",".","f","l","o","o","r","(","x",")">>,    \* np.floor(x)
    <<"n","p",".","s","i","n">>,    \* np.sin
    <<"n","p">>,    \* np
    <<"(",")">>,    \* ()
    <<"(","p","i",":","=","p","i","+","1",")">>,    \* (pi:=pi+1)
    <<"1","/","0">>,    \* 1/0
    <<"x","+">>,    \* x+
    <<"(","x">>,    \* (x
    <<"x",")","(">>,    \* x)(
    <<>>,    \* (0 spaces)
    <<" "," "," ">>,    \* (3 spaces)
    <<"i","m","p","o","r","t">>,    \* import
    <<"i","m","p","o","r","t"," ","o","s">>,    \* import os
    <<"\\","i","m","p","o","r","t"," ","x">>,    \* \import x
    <<"i","m","p","o","r","t"," ","="," ","x">>,    \* import = x
    <<"f","i","l","e","^","2">>,    \* file^2
    <<"E","v","a","l">>,    \* Eval
    <<"E","V","A","L","(","x",")">>,    \* EVAL(x)
    <<"e","x","e","c","(","x",")">>,    \* exec(x)
    <<"o","p","e","n","(","x",")">>,    \* open(x)
    <<"_","_">>,    \* __
    <<"x","_","_">>,    \* x__
    <<"o","s",".","x">>,    \* os.x
    <<"s","y","s",".","x">>    \* sys.x
    >>

\* the pieces free-form request texts are put together from
Fragments == <<
    <<"x">>,    \* x
    <<"2">>,    \* 2
    <<"(">>,    \* (
    <<")">>,    \* )
    <<"^">>,    \* ^
    <<"/">>,    \* /
    <<"e">>,    \* e
    <<"\\","s","i","n">>    \* \sin
    >>

RECURSIVE FreeTexts(_)
FreeTexts(n) ==
    IF n = 0 THEN {<<>>}
    ELSE LET shorter == FreeTexts(n - 1)
         IN  shorter \cup {s \o Fragments[k] : s \in shorter, k \in 1..Len(Fragments)}

Texts ==
    LET Range(s) == {s[i] : i \in 1..Len(s)}
    IN  Range(Examples) \cup Range(OtherInputs) \cup FreeTexts(MaxFrags)

\* the texts parse is given: the request texts, every command of FUNCTION_MAP
\* in each call syntax, and texts with fractions, juxtapositions, other
\* commands, forbidden tokens, blanks, constants, powers, left-hand sides,
\* unclosed braces and nested parentheses
ParserInputs ==
    LET Calls == {FUNCTION_MAP[k].latex \o a :
                     k \in 1..Len(FUNCTION_MAP),
                     a \in {<<"{","x","}">>, <<"(","x",")">>, <<" ","x">>}}
        Others == {
            <<"\\","f","r","a","c","{","1","}","{","2","}","\\","f","r","a","c","{","1","}","{","2","}","\\","f","r","a","c","{","1","}","{","2","}","\\","f","r","a","c","{","1","}","{","2","}","\\","f","r","a","c","{","1","}","{","2","}","\\","f","r","a","c","{","1","}","{","2","}","\\","f","r","a","c","{","1","}","{","2","}","\\","f","r","a","c","{","1","}","{","2","}","\\","f","r","a","c","{","1","}","{","2","}","\\","f","r","a","c","{","1","}","{","2","}","\\","f","r","a","c","{","1","}","{","2","}">>,
            <<"\\","f","r","a","c","{","1","}","{","2","}","\\","f","r","a","c","{","1","}","{","2","}","\\","f","r","a","c","{","1","}","{","2","}","\\","f","r","a","c","{","1","}","{","2","}","\\","f","r","a","c","{","1","}","{","2","}","\\","f","r","a","c","{","1","}","{","2","}","\\","f","r","a","c","{","1","}","{","2","}","\\","f","r","a","c","{","1","}","{","2","}","\\","f","r","a","c","{","1","}","{","2","}","\\","f","r","a","c","{","1","}","{","2","}">>,
            <<"\\","f","r","a","c","{","x","^","{","2","}","}","{","3","}">>,
            <<"\\","f","r","a","c","{","\\","f","r","a","c","{","1","}","{","x","}","}","{","2","}">>,
            <<"\\","f","r","a","c","{","1","}","{","\\","f","r","a","c","{","1","}","{","x","}","}">>,
            <<"\\","f","r","a","c","{","1","}","{","2","}","+","\\","f","r","a","c","{","x","}","{","3","}">>,
            <<"\\","f","r","a","c","{","1","}","{","x">>,
            <<"\\","f","r","a","c","{","1","}">>,
            <<"|","2","|","x">>,
            <<"{","2","}","x">>,
            <<"2","{","x","}">>,
            <<"2","|","x","|">>,
            <<"x"," ","{","y","}">>,
            <<"(","x",")","|","x","|">>,
            <<"2","x">>,
            <<"2","(","x",")","3">>,
            <<"(","x",")","(","x",")","x">>,
            <<"x","^","{","2","}">>,
            <<"\\","e","t","a">>,
            <<"\\","e","p","s","i","l","o","n"," ","x">>,
            <<"\\","p","i","x">>,
            <<"\\","a","l","p","h","a">>,
            <<"\\","t","h","e","t","a"," ","x">>,
            <<"\\","s","i","n","x">>,
            <<"\\","a","l","p","h","a","{","x","}"," ","y">>,
            <<"\\","e">>,
            <<"\\","e","x","p","2">>,
            <<"\\","s","e","c","(","(","x",")",")">>,
            <<"\\","s","e","c","{","x","+","(","1",")","}">>,
            <<"\\","c","o","t","(","x">>,
            <<"2","\\","s","e","c","(","x",")">>,
            <<"\\","c","s","c","{","x","}","\\","c","o","t"," ","x">>,
            <<"\\","s","e","c","(","\\","f","r","a","c","{","1","}","{","x","}",")">>,
            <<"e","v","a","l","(">>,
            <<"i","m","p","o","r","t",")">>,
            <<"e","x","e","c","(","x">>,
            <<"(","o","p","e","n">>,
            <<"\t">>,
            <<" ","x"," ">>,
            <<" ","\t","\n">>,
            <<"y"," ","="," ">>,
            <<"f","(","x",")"," ","="," ","\\","s","e","c"," ","x">>,
            <<"\\","p","i","^","2">>,
            <<"\\","p","i","^","{","2","}">>,
            <<"\\","e","^","{","x","}">>,
            <<"\\","e","^","2">>,
            <<"\\","p","i"," ","x">>,
            <<"\\","p","i","(","x",")">>,
            <<"\\","e","(","x",")">>,
            <<"2","\\","p","i">>,
            <<"\\","i","n","f","t","y"," ","x">>,
            <<"\\","p","i">>,
            <<"x","^","{","2","+","3","}">>,
            <<"x","^","{","x","^","{","2","}","}">>,
            <<"x","^","y">>,
            <<"x","^","1","0">>,
            <<"x","^","2">>,
            <<"2","^","x","^","2">>,
            <<"y"," ","="," ","x","^","2">>,
            <<"f","(","x",")"," ","="," ","x","^","2">>,
            <<"y"," ","="," ","f","(","x",")"," ","="," ","x">>,
            <<"a"," ","="," ","y"," ","="," ","x">>,
            <<"y","=","y","=","x">>,
            <<"a","b","c"," ","="," ","2">>,
            <<"f"," ","(","x",")"," ","="," ","x">>,
            <<"y","(","x",")"," ","="," ","x">>,
            <<"a","(","x",")"," ","="," ","x">>,
            <<"g","(","x",")"," ","="," ","x">>,
            <<"e","(","x",")"," ","="," ","2">>,
            <<"F","(","x",")"," ","="," ","x">>,
            <<"h","(","t",")","=","t">>,
            <<"x","^","{","2">>,
            <<"\\","s","i","n","{","x">>,
            <<"\\","s","q","r","t","{","x">>,
            <<"{","x">>,
            <<"\\","c","o","s","{","x","+","1">>,
            <<"\\","s","e","c","(","(","x","+","1",")","*","2",")">>,
            <<"\\","c","o","t","(","(","x","+","1",")",")">>,
            <<"\\","c","s","c","(","(","x",")","+","1",")">>,
            <<"\\","s","e","c","{","(","x","+","1",")","*","2","}">> }
    IN  Texts \cup Calls \cup Others

\* np.linspace(x_min, x_max, n)
linspace(x_min, x_max, n) ==
    [i \in 1..n |->
        IF n = 1 THEN Num(x_min, 1)
        ELSE AddS(Num(x_min, 1), DivS(Num((i - 1) * (x_max - x_min), 1), Num(n - 1, 1)))]

\* the arrays a holder of an evaluator calls it with
InputArrays == { <<One>>, <<Num(-1, 1), Zero, One>>, <<Zero, Num(2, 1)>> }

\* ------------------------------------------------------------ the state

VARIABLES
    pc,           \* "idle", "done" (a handler has answered), "held" (a caller
                  \* holds an evaluator), "shared" (two callers share one)
    request,      \* the request being served
    parse_error,  \* the reason parse raised EquationParseError, "ok", or "none"
    python_expr,  \* what parse returned
    func,         \* the evaluator create_function returned
    x_values,     \* the argument of the last call of the evaluator
    result,       \* what the last call of the evaluator returned
    raised,       \* the class of the exception eval raised in it, "" for none
    evaluated,    \* the strings handed to eval while serving the request
    returns,      \* the calls made on the evaluator: <<argument, result>>
    response,     \* the answer of the handler
    callers,      \* the concurrent callers of a shared evaluator
    figures       \* the number of figures open in matplotlib.pyplot

vars == <<pc, request, parse_error, python_expr, func, x_values, result, raised,
          evaluated, returns, response, callers, figures>>

Callers == {1, 2}

NoRequest == [handler |-> "none", latex |-> <<>>, x_min |-> 0, x_max |-> 0]
NoResponse == [status |-> "none", valid |-> FALSE, detail |-> ""]
NoCaller == [at |-> "ready", x |-> <<>>, ret |-> NoneValue]

Init ==
    /\ pc = "idle"
    /\ request = NoRequest
    /\ parse_error = "none"
    /\ python_expr = <<>>
    /\ func = NoFunc
    /\ x_values = <<>>
    /\ result = NoneValue
    /\ raised = ""
    /\ evaluated = <<>>
    /\ returns = {}
    /\ response = NoResponse
    /\ callers = [t \in Callers |-> NoCaller]
    /\ figures = 0

\* what a handler leaves when parse raised
Rejected(err, answer) ==
    [parse_error |-> err, python_expr |-> <<>>, func |-> NoFunc, x_values |-> <<>>,
     result |-> NoneValue, raised |-> "", evaluated |-> <<>>, returns |-> {},
     response |-> answer]

\* what a handler leaves after the one call c of the evaluator of expr, on x
Evaluated(expr, x, c, answer) ==
    [parse_error |-> "ok", python_expr |-> expr,
     func |-> [create_function(expr) EXCEPT !.safe_namespace = c.ns], x_values |-> x,
     result |-> c.ret, raised |-> c.raised, evaluated |-> <<expr>>,
     returns |-> {<<x, c.ret>>}, response |-> answer]

Becomes(o) ==
    /\ parse_error' = o.parse_error
    /\ python_expr' = o.python_expr
    /\ func' = o.func
    /\ x_values' = o.x_values
    /\ result' = o.result
    /\ raised' = o.raised
    /\ evaluated' = o.evaluated
    /\ returns' = o.returns
    /\ response' = o.response

IsNumeric(y) == y.k \in {"int", "float", "np", "arr", "tuple"}

\* np.isnan(y).all()
IsNanAll(y) == \A i \in 1..Len(Elems(y)) : Elems(y)[i].t = "nan"

\* np.isscalar(y)
isscalar(y) == y.k \in {"int", "float", "np"}

\* ------------------------------------------------------- POST /equation/parse

\* the answer for test_result
ParseAnswer(test_result) ==
    IF ~IsNumeric(test_result)
    THEN [status |-> "200", valid |-> FALSE, detail |-> "Parse error"]
    ELSE IF IsNanAll(test_result)
    THEN [status |-> "200", valid |-> FALSE, detail |-> "invalid values"]
    ELSE [status |-> "200", valid |-> TRUE, detail |-> ""]

\* the handler after parser.parse(latex), p what it returned or raised, and
\* after the call c == func(np.array([1.0]))
ParseParsed(p) ==
    LET ParseCalled(c) == Evaluated(p.expr, <<One>>, c, ParseAnswer(c.ret))
    IN  IF p.err # "ok"
        THEN Rejected(p.err, [status |-> "200", valid |-> FALSE, detail |-> p.err])
        ELSE ParseCalled(f(create_function(p.expr), <<One>>))

parse_equation(latex) == ParseParsed(ParserParse(latex))

ParseEquation ==
    /\ pc = "idle"
    /\ \E latex \in Texts :
        /\ request' = [NoRequest EXCEPT !.handler = "parse", !.latex = latex]
        /\ Becomes(parse_equation(latex))
    /\ pc' = "done"
    /\ UNCHANGED <<callers, figures>>

\* -------------------------------------------------- POST /equation/render-png

\* y as the handler plots it: a scalar spread over x, infinities as nan
Plotted(x, y) ==
    LET spread(y1) == [i \in 1..Len(Elems(y1)) |->
                          IF Elems(y1)[i].t = "inf" THEN NaN ELSE Elems(y1)[i]]
    IN  spread(IF isscalar(y) THEN full_like(x, y.v) ELSE y)

\* the answer of a handler whose `except Exception` clause also takes the
\* HTTPException it raised itself
RenderAnswerConverted(y, plotted) ==
    IF plotted /\ \E i \in 1..Len(y) : y[i].t \in {"num", "sym"}
    THEN [status |-> "200", valid |-> TRUE, detail |-> ""]
    ELSE [status |-> "500", valid |-> FALSE, detail |-> "Failed to render"]

\* the answer of a handler that plots whatever values it has
RenderAnswerUnchecked(y, plotted) ==
    IF plotted
    THEN [status |-> "200", valid |-> TRUE, detail |-> ""]
    ELSE [status |-> "500", valid |-> FALSE, detail |-> "Failed to render"]

\* the answer for the plotted values y; plotted tells whether matplotlib
\* drew and saved the figure without raising
RenderAnswer(y, plotted) ==
    IF \A i \in 1..Len(y) : y[i].t \notin {"num", "sym"}
    THEN [status |-> "400", valid |-> FALSE, detail |-> "no valid values"]
    ELSE IF plotted
    THEN [status |-> "200", valid |-> TRUE, detail |-> ""]
    ELSE [status |-> "500", valid |-> FALSE, detail |-> "Failed to render"]

\* the handler after the call c == func(x)
RenderCalled(python_expr_, x, c, plotted) ==
    Evaluated(python_expr_, x, c,
              IF ~IsNumeric(c.ret)
              THEN [status |-> "500", valid |-> FALSE, detail |-> "Failed to render"]
              ELSE RenderAnswer(Plotted(x, c.ret), plotted))

\* the handler after parser.parse(request.latex), p what it returned or
\* raised, and after x == np.linspace(...)
RenderParsed(p, x_min, x_max, plotted) ==
    LET RenderSampled(x) ==
            RenderCalled(p.expr, x, f(create_function(p.expr), x), plotted)
    IN  IF p.err # "ok"
        THEN Rejected(p.err, [status |-> "400", valid |-> FALSE, detail |-> p.err])
        ELSE RenderSampled(linspace(x_min, x_max, NumPoints))

render_equation_png(latex, x_min, x_max, plotted) ==
    RenderParsed(ParserParse(latex), x_min, x_max, plotted)

\* plt.subplots opens a figure once the values are numeric and some are
\* finite, and plt.close(fig) is the last statement before the return: when
\* matplotlib raises in between, the figure stays open
RenderEquationPng ==
    /\ pc = "idle"
    /\ \E latex \in Texts, range \in {<<-10, 10>>} \cup ({-1, 0} \X {0, 1}),
          plotted \in IF figures < MaxFigures THEN BOOLEAN ELSE {TRUE} :
        /\ request' = [handler |-> "render", latex |-> latex,
                       x_min |-> range[1], x_max |-> range[2]]
        /\ Becomes(render_equation_png(latex, range[1], range[2], plotted))
    /\ figures' = IF response'.status = "500" /\ IsNumeric(result')
                  THEN figures + 1 ELSE figures
    /\ pc' = "done"
    /\ UNCHANGED callers

\* ------------------------------------- POST /render and POST /render-png

\* BarRenderer.render, has_y telling whether mapping.y is given and drawn
\* whether the drawing calls return: the figure it opened and what it raised
BarRenderer_render(has_y, drawn) ==
    [opened |-> 1,
     raised |-> IF ~has_y THEN "ValueError" ELSE IF ~drawn THEN "Exception" ELSE ""]

\* render_figure_to_png(fig), saved telling whether fig.savefig returns: the
\* figure it closed in its finally clause and what it raised
render_figure_to_png(saved) ==
    [closed |-> 1, raised |-> IF saved THEN "" ELSE "Exception"]

\* render_plot and render_plot_png for a bar plot; mapped tells whether
\* validate_mapping finds the mapped columns in the data (its HTTPException
\* is not a ValueError: the clause `except Exception` answers it with 500)
RenderPlot ==
    /\ pc = "idle"
    /\ \E mapped \in BOOLEAN, has_y \in BOOLEAN, drawn \in BOOLEAN, saved \in BOOLEAN :
        LET answer(status) == [status |-> status, valid |-> status = "200", detail |-> ""]
            converted(fig, png) ==
                /\ figures' = figures + fig.opened - png.closed
                /\ Becomes(Rejected("none", answer(IF png.raised = "" THEN "200" ELSE "500")))
            rendered(fig) ==
                IF fig.raised = ""
                THEN converted(fig, render_figure_to_png(saved))
                ELSE /\ figures < MaxFigures
                     /\ figures' = figures + fig.opened
                     /\ Becomes(Rejected("none",
                            answer(IF fig.raised = "ValueError" THEN "400" ELSE "500")))
        IN  IF ~mapped
            THEN figures' = figures /\ Becomes(Rejected("none", answer("500")))
            ELSE rendered(BarRenderer_render(has_y, drawn))
    /\ request' = [NoRequest EXCEPT !.handler = "plot"]
    /\ pc' = "done"
    /\ UNCHANGED callers

\* the handler has answered: its parser, evaluator and arrays are dropped
Complete ==
    /\ pc = "done"
    /\ pc' = "idle"
    /\ request' = NoRequest
    /\ Becomes(Rejected("none", NoResponse))
    /\ UNCHANGED <<callers, figures>>

\* ------------------------------------------------ create_plottable_function

PlottableParsed(p) ==
    IF p.err # "ok"
    THEN Rejected(p.err, [status |-> "raised", valid |-> FALSE, detail |-> p.err])
    ELSE [Rejected("ok", [status |-> "returned", valid |-> TRUE, detail |-> ""])
            EXCEPT !.python_expr = p.expr, !.func = create_function(p.expr)]

create_plottable_function(latex) == PlottableParsed(ParserParse(latex))

CreatePlottableFunction ==
    /\ pc = "idle"
    /\ \E latex \in Texts :
        /\ request' = [NoRequest EXCEPT !.handler = "plottable", !.latex = latex]
        /\ Becomes(create_plottable_function(latex))
    /\ pc' = IF func'.made THEN "held" ELSE "done"
    /\ UNCHANGED <<callers, figures>>

\* one call of the evaluator by its holder, c what f did
Called(x, c) ==
    /\ func' = [func EXCEPT !.safe_namespace = c.ns]
    /\ x_values' = x
    /\ result' = c.ret
    /\ raised' = c.raised
    /\ evaluated' = Append(evaluated, func.expr)
    /\ returns' = returns \cup {<<x, c.ret>>}

\* the holder of the evaluator calls it
Call ==
    /\ pc = "held"
    /\ Len(evaluated) < MaxCalls
    /\ \E x \in InputArrays : Called(x, f(func, x))
    /\ UNCHANGED <<pc, request, parse_error, python_expr, response, callers, figures>>

\* the holder drops the evaluator
Drop ==
    /\ pc = "held"
    /\ pc' = "idle"
    /\ request' = NoRequest
    /\ Becomes(Rejected("none", NoResponse))
    /\ UNCHANGED <<callers, figures>>

Next ==
    \/ ParseEquation
    \/ RenderEquationPng
    \/ RenderPlot
    \/ CreatePlottableFunction
    \/ Call
    \/ Complete
    \/ Drop

Spec == Init /\ [][Next]_vars

\* ------------------------------------- one evaluator, concurrent callers

\* create_plottable_function(latex) has returned the evaluator that the
\* callers share
SharedInit ==
    /\ pc = "shared"
    /\ \E latex \in Texts :
        /\ create_plottable_function(latex).func.made
        /\ request = [NoRequest EXCEPT !.handler = "plottable", !.latex = latex]
        /\ python_expr = create_plottable_function(latex).python_expr
        /\ func = create_plottable_function(latex).func
        /\ response = create_plottable_function(latex).response
    /\ parse_error = "ok"
    /\ x_values = <<>>
    /\ result = NoneValue
    /\ raised = ""
    /\ evaluated = <<>>
    /\ returns = {}
    /\ callers = [t \in Callers |-> NoCaller]
    /\ figures = 0

\* caller t enters f: safe_namespace['x'] = x_values
Store(t) ==
    /\ pc = "shared"
    /\ callers[t].at = "ready"
    /\ \E x \in InputArrays :
        /\ callers' = [callers EXCEPT ![t] = [at |-> "stored", x |-> x, ret |-> NoneValue]]
        /\ func' = [func EXCEPT !.safe_namespace[<<"x">>] = Arr(x)]
    /\ UNCHANGED <<pc, request, parse_error, python_expr, x_values, result, raised,
                   evaluated, returns, response, figures>>

\* what caller t gets from the evaluation r: the value, or for an exception
\* np.full_like of its own x_values
Returned(t, r) ==
    /\ callers' = [callers EXCEPT ![t].at = "returned",
                      ![t].ret = IF IsExc(r.val) THEN full_like(callers[t].x, NaN)
                                 ELSE r.val]
    /\ func' = [func EXCEPT !.safe_namespace = r.ns]

\* caller t goes on: the eval of the expression in the namespace as it is now
EvalReturn(t) ==
    /\ pc = "shared"
    /\ callers[t].at = "stored"
    /\ Returned(t, Eval(func.expr, func.safe_namespace))
    /\ evaluated' = Append(evaluated, func.expr)
    /\ UNCHANGED <<pc, request, parse_error, python_expr, x_values, result, raised,
                   returns, response, figures>>

SpecShared == SharedInit /\ [][\E t \in Callers : Store(t) \/ EvalReturn(t)]_vars

\* ------------------------------------------- EquationParser.parse, by step

\* parse(latex) is called
ParseInit ==
    /\ pc = "parse"
    /\ \E latex \in ParserInputs :
        /\ request = [NoRequest EXCEPT !.handler = "parser", !.latex = latex]
        /\ python_expr = latex
    /\ parse_error = "none"
    /\ func = NoFunc
    /\ x_values = <<>>
    /\ result = NoneValue
    /\ raised = ""
    /\ evaluated = <<>>
    /\ returns = {}
    /\ response = NoResponse
    /\ callers = [t \in Callers |-> NoCaller]
    /\ figures = 0

\* lines 74-81: the empty check, strip and _remove_lhs
\* the entry of parse with the test `if not latex_eq` alone, without the trim
NormalizeUntrimmed ==
    /\ pc = "parse"
    /\ IF request.latex = <<>>
       THEN pc' = "raised" /\ parse_error' = "empty" /\ UNCHANGED python_expr
       ELSE /\ pc' = "normalized"
            /\ python_expr' = _remove_lhs(Strip(request.latex))
            /\ UNCHANGED parse_error
    /\ UNCHANGED <<request, func, x_values, result, raised, evaluated, returns,
                   response, callers, figures>>

Normalize ==
    /\ pc = "parse"
    /\ IF request.latex = <<>> \/ Strip(request.latex) = <<>>
       THEN pc' = "raised" /\ parse_error' = "empty" /\ UNCHANGED python_expr
       ELSE /\ pc' = "normalized"
            /\ python_expr' = _remove_lhs(Strip(request.latex))
            /\ UNCHANGED parse_error
    /\ UNCHANGED <<request, func, x_values, result, raised, evaluated, returns,
                   response, callers, figures>>

\* line 109: Step 1 of _convert_latex_to_python
ConvertFractions ==
    /\ pc = "normalized"
    /\ pc' = "flattened"
    /\ python_expr' = _convert_fractions(python_expr)
    /\ UNCHANGED <<request, parse_error, func, x_values, result, raised, evaluated,
                   returns, response, callers, figures>>

\* lines 112-171: Steps 2 to 12 of _convert_latex_to_python
ConvertLatex ==
    /\ pc = "flattened"
    /\ pc' = "rewritten"
    /\ python_expr' = ConvertAfterFractions(python_expr)
    /\ UNCHANGED <<request, parse_error, func, x_values, result, raised, evaluated,
                   returns, response, callers, figures>>

\* lines 87-89: _validate_expression raises, or parse returns expr
Validate ==
    /\ pc = "rewritten"
    /\ parse_error' = _validate_expression(python_expr)
    /\ pc' = IF parse_error' = "ok" THEN "returned" ELSE "raised"
    /\ UNCHANGED <<request, python_expr, func, x_values, result, raised, evaluated,
                   returns, response, callers, figures>>

\* the caller of parse makes the evaluator of what parse returned and calls it
Evaluate ==
    /\ pc = "returned"
    /\ pc' = "evaluated"
    /\ \E x \in InputArrays :
        Becomes(Evaluated(python_expr, x, f(create_function(python_expr), x), NoResponse))
    /\ UNCHANGED <<request, callers, figures>>

SpecParse ==
    ParseInit /\ [][Normalize \/ ConvertFractions \/ ConvertLatex \/ Validate \/ Evaluate]_vars

\* ------------------------------------------------------------ properties

\* C1: every string handed to eval has passed _validate_expression, and an
\* evaluator is only made from such a string; when parse raised, no evaluator
\* was made and eval was not called for the request.
EvalOnlyAfterValidation ==
    /\ \A i \in 1..Len(evaluated) : _validate_expression(evaluated[i]) = "ok"
    /\ func.made => _validate_expression(func.expr) = "ok"
    /\ parse_error \notin {"ok", "none"} => ~func.made /\ evaluated = <<>>

\* a plot request whose text passed validation and was evaluated
RenderEvaluated ==
    /\ request.handler = "render"
    /\ parse_error = "ok"
    /\ evaluated = <<python_expr>>

\* C2: an evaluation resolves no name but x, the constants pi and e and the
\* module prefix np, and no attribute but the whitelisted functions and
\* constants.
OnlyWhitelistResolvable ==
    LET \* what an evaluation that ran to the end resolved by the operation op
        Resolved(code, op) ==
            {code[i].id : i \in {j \in 1..Len(code) : code[j].op = op}}
        Whitelisted(code) ==
            /\ Resolved(code, "name") \subseteq {<<"x">>, <<"n","p">>, <<"p","i">>, <<"e">>}
            /\ Resolved(code, "attr") \subseteq WhitelistedFunctions \cup WhitelistedConstants
    IN  (evaluated # <<>> /\ raised = "") => Whitelisted(Compile(func.expr).code)

\* C3: a request text that contains a forbidden token, in any letter case, is
\* rejected by parse.
RawForbiddenTokenRejected ==
    (request.handler # "none"
     /\ \E k \in 1..Len(dangerous) : Contains(StrLower(request.latex), dangerous[k]))
        => parse_error # "ok"

\* C4: every expression parse returns is built only from numeric literals,
\* arithmetic operators, x and calls or references into the whitelist.
AcceptedIsWhitelistArithmetic ==
    LET \* an operation of arithmetic over numeric literals, x and the whitelist
        IsWhitelistArithmetic(ins) ==
            \/ ins.op \in {"const", "unary", "call"}
            \/ ins.op = "name" /\ ins.id \in {<<"x">>, <<"n","p">>, <<"p","i">>, <<"e">>}
            \/ ins.op = "attr" /\ ins.id \in WhitelistedFunctions \cup WhitelistedConstants
            \/ ins.op = "bin" /\ ins.id \in {<<"+">>, <<"-">>, <<"*">>, <<"/">>, <<"*","*">>}
        AllArithmetic(code) == \A i \in 1..Len(code) : IsWhitelistArithmetic(code[i])
    IN  parse_error = "ok" => AllArithmetic(Compile(python_expr).code)

\* C5: a string returned by parse contains no deny-list substring, compared
\* case-insensitively, and as many '(' as ')'.
ReturnedIsCleanAndBalanced ==
    parse_error = "ok" =>
        /\ \A k \in 1..Len(dangerous) : ~Contains(StrLower(python_expr), dangerous[k])
        /\ Count(python_expr, "(") = Count(python_expr, ")")

\* parse returned an expression with nested parentheses
ReturnedWithParentheses == parse_error = "ok" /\ Count(python_expr, "(") >= 2

\* C6: under every interleaving of two calls of one evaluator, each caller
\* gets the result computed from its own input array.
SharedCallersGetOwnResult ==
    \A t \in Callers :
        callers[t].at = "returned" =>
            callers[t].ret = f(create_function(func.expr), callers[t].x).ret

\* C7: a call leaves the namespace the evaluator captured as create_function
\* built it, and two calls of one evaluator with the same input return the same.
EvaluatorHasNoMutableState ==
    func.made =>
        /\ func.safe_namespace = SafeNamespace
        /\ \A a, b \in returns : a[1] = b[1] => a[2] = b[2]

\* C8: parse returning gives an evaluator, no call of the evaluator raises,
\* and when eval raised the call returned NaN in the shape of its input.
EvaluatorNeverRaises ==
    /\ parse_error = "ok" => func.made
    /\ \A c \in returns : ~IsExc(c[2])
    /\ (evaluated # <<>> /\ raised # "") => result = Arr([i \in 1..Len(x_values) |-> NaN])

\* eval raised in a call on several samples
EvalRaised == raised = "ZeroDivisionError" /\ Len(x_values) > 1 /\ result.k = "arr"

\* C9: a call of the evaluator returns an array of the length of its input.
EvaluatorReturnsInputShape ==
    evaluated # <<>> => result.k = "arr" /\ Len(result.a) = Len(x_values)

\* C10: the evaluator of 1/x, on an array with 0 and other values, returns
\* NaN where the input is 0 and 1/x elsewhere.
ReciprocalIsNaNAtZero ==
    (/\ evaluated # <<>>
     /\ func.expr = <<"1","/","x">>
     /\ \E i \in 1..Len(x_values) : IsZero(x_values[i])
     /\ \E i \in 1..Len(x_values) : ~IsZero(x_values[i]))
        => /\ raised = ""
           /\ result.k = "arr"
           /\ Len(result.a) = Len(x_values)
           /\ \A i \in 1..Len(x_values) :
                result.a[i] = IF IsZero(x_values[i]) THEN NaN ELSE DivS(One, x_values[i])

\* C11: the validator scans for the forbidden patterns, then counts the
\* parentheses, then compiles, and reports the first check that fails: an
\* expression with a forbidden pattern is rejected for that pattern even when
\* it is also unbalanced or does not compile, and an unbalanced expression
\* without one is rejected as unbalanced, never as a syntax error.
ValidatorReportsFirstViolation ==
    (pc \in {"raised", "returned", "evaluated"} /\ parse_error # "empty") =>
        /\ HasDangerous(python_expr) => parse_error = "contains"
        /\ (~HasDangerous(python_expr)
              /\ Count(python_expr, "(") # Count(python_expr, ")"))
               => parse_error = "unbalanced"
        /\ parse_error = "syntax" =>
               /\ ~HasDangerous(python_expr)
               /\ Count(python_expr, "(") = Count(python_expr, ")")
               /\ ~Compile(python_expr).ok
        /\ parse_error \in {"contains", "unbalanced", "syntax", "ok"}

\* an expression with a forbidden pattern that is also unbalanced and does not
\* compile has been rejected for the pattern
ForbiddenAndUnbalancedRejected ==
    /\ pc = "raised"
    /\ parse_error = "contains"
    /\ Count(python_expr, "(") # Count(python_expr, ")")
    /\ ~Compile(python_expr).ok

\* C12: parse raises 'Empty equation' exactly when its input has no character
\* other than whitespace, and then nothing else of parse has run: the text is
\* as it was given, nothing was validated and nothing evaluated.
EmptyIffBlankInput ==
    pc # "parse" =>
        /\ parse_error = "empty"
               <=> \A i \in 1..Len(request.latex) : request.latex[i] \in Whitespace
        /\ parse_error = "empty" =>
               /\ pc = "raised"
               /\ python_expr = request.latex
               /\ ~func.made
               /\ evaluated = <<>>

\* a text of blanks only has been refused as empty
BlankInputRefused ==
    /\ pc = "raised"
    /\ parse_error = "empty"
    /\ Len(request.latex) > 1

\* C13: in the rewritten text of an input written without '*', no mapped
\* function name of FUNCTION_MAP is followed by '*' and '(': the repair pass
\* has removed every '*' the implicit-multiplication stage put between a
\* function name and its opening parenthesis.
NoStarAfterFunctionName ==
    (/\ pc \in {"rewritten", "raised", "returned", "evaluated"}
     /\ parse_error # "empty"
     /\ Count(request.latex, "*") = 0) =>
        \A k \in 1..Len(FUNCTION_MAP) :
            ~Contains(python_expr, FUNCTION_MAP[k].py \o <<"*", "(">>)

\* C14: for a text with \cot, \sec or \csc, in braced, parenthesized or
\* space-separated call syntax, the rewrite adds as many '(' as ')': the
\* excess of opening over closing parentheses of its output is the excess of
\* opening over closing braces and parentheses of its input, so balanced input
\* gives balanced output.  '\sec(x)' becomes '(1/np.cos(x))', passes the
\* validation, and its evaluator returns 1.0 at x = 0.
ReciprocalKeepsBalance ==
    LET sec == <<"\\","s","e","c","(","x",")">>
        kept(in, out) ==
            Count(out, "(") - Count(out, ")")
                = (Count(in, "(") + Count(in, "{")) - (Count(in, ")") + Count(in, "}"))
    IN  (/\ pc \in {"rewritten", "raised", "returned", "evaluated"}
         /\ parse_error # "empty"
         /\ \E c \in {<<"\\","c","o","t">>, <<"\\","s","e","c">>, <<"\\","c","s","c">>} :
                Contains(request.latex, c)) =>
            /\ kept(_remove_lhs(Strip(request.latex)), python_expr)
            /\ request.latex = sec =>
                   /\ python_expr = <<"(","1","/","n","p",".","c","o","s","(","x",")",")">>
                   /\ parse_error \in {"none", "ok"}
                   /\ pc = "evaluated" =>
                          /\ raised = ""
                          /\ result.k = "arr"
                          /\ Len(result.a) = Len(x_values)
                          /\ \A i \in 1..Len(x_values) :
                                 IsZero(x_values[i]) => result.a[i] = One

\* '\sec(x)' has been validated and evaluated on an array that starts with 0
SecEvaluatedAtZero ==
    /\ pc = "evaluated"
    /\ request.latex = <<"\\","s","e","c","(","x",")">>
    /\ Len(x_values) = 2
    /\ IsZero(x_values[1])
    /\ result.k = "arr"
    /\ result.a[1] = One

\* C15: when the fraction loop stops at its bound of max_iterations with a
\* \frac{a}{b} it could still replace, parse does not return: the validator
\* rejects the text.  A replaceable fraction is left after the stage only when
\* the bound stopped the loop.
UnresolvedFractionRejected ==
    LET left(flattened) == SearchFrom(FracPattern, flattened, 1).ok
    IN  (/\ pc \in {"raised", "returned", "evaluated"}
         /\ parse_error # "empty"
         /\ left(_convert_fractions(_remove_lhs(Strip(request.latex))))) =>
            /\ pc = "raised"
            /\ parse_error \in {"unbalanced", "syntax"}

\* C16: for a text with at most max_iterations \frac commands, each followed
\* by two brace-balanced arguments (which may hold fractions and other braced
\* groups), the fraction stage leaves no \frac command; '\frac{1}{x}' is
\* rewritten to '((1)/(x))' and evaluates to 0.5 at x = 2.
FractionsAllFlattened ==
    LET frac == <<"\\","f","r","a","c">>
        one_over_x == <<"\\","f","r","a","c","{","1","}","{","x","}">>
        Fracs(s) == {i \in 1..(Len(s) - 4) : SubSeq(s, i, i + 4) = frac}
        Depth(s, i, j) == Cardinality({k \in i..j : s[k] = "{"})
                              - Cardinality({k \in i..j : s[k] = "}"})
        \* the position of the brace that closes the one at i, or 0
        Close(s, i) ==
            IF CharAt(s, i) # "{" THEN 0
            ELSE LET ends == {j \in i..Len(s) : Depth(s, i, j) = 0}
                 IN  IF ends = {} THEN 0
                     ELSE CHOOSE j \in ends : \A k \in ends : j <= k
        TwoArguments(s, i) ==
            /\ Close(s, i + 5) # 0
            /\ Close(s, Close(s, i + 5) + 1) # 0
        WellFormed(s) ==
            /\ Fracs(s) # {}
            /\ Cardinality(Fracs(s)) <= max_iterations
            /\ \A i \in Fracs(s) : TwoArguments(s, i)
    IN  /\ (pc = "flattened" /\ WellFormed(_remove_lhs(Strip(request.latex))))
               => ~Contains(python_expr, frac)
        /\ (request.latex = one_over_x /\ pc \in {"rewritten", "returned", "evaluated"})
               => /\ python_expr = <<"(","(","1",")","/","(","x",")",")">>
                  /\ pc = "evaluated" =>
                         /\ result.k = "arr"
                         /\ \A i \in 1..Len(x_values) :
                                x_values[i] = Num(2, 1) => result.a[i] = Num(1, 2)

\* C17: the rewrite ends on every text, malformed ones included, without
\* raising: the fraction loop makes at most max_iterations replacements (each
\* removes one \frac command) and stops before that only when no fraction is
\* left to replace, and the text after the last stage is the one the stages
\* give when each runs once, in order, on the text parse handed over.
RewriteTotalAndBounded ==
    LET frac == <<"\\","f","r","a","c">>
        Fracs(s) == Cardinality({i \in 1..(Len(s) - 4) : SubSeq(s, i, i + 4) = frac})
        bounded(in, out) ==
            /\ Fracs(in) - Fracs(out) \in 0..max_iterations
            /\ \/ Fracs(in) - Fracs(out) = max_iterations
               \/ ~SearchFrom(FracPattern, out, 1).ok
    IN  /\ pc = "flattened" => bounded(_remove_lhs(Strip(request.latex)), python_expr)
        /\ pc = "rewritten" =>
               /\ python_expr = ConvertAfterFractions(
                                    _convert_fractions(_remove_lhs(Strip(request.latex))))
               /\ parse_error = "none"
               /\ raised = ""
        /\ pc \in {"flattened", "rewritten"} =>
               \A i \in 1..Len(python_expr) : python_expr[i] \in STRING

\* the loop has stopped at its bound with a fraction left, and the rewrite of
\* that text has ended
LoopStoppedAtBound ==
    /\ pc = "rewritten"
    /\ SearchFrom(FracPattern, _convert_fractions(_remove_lhs(Strip(request.latex))), 1).ok
    /\ Len(python_expr) > 0

\* C18: the rewrite is idempotent on its outputs: rewriting a rewritten text
\* gives the same text.
RewriteIdempotentOnOutputs ==
    pc = "rewritten" => _convert_latex_to_python(python_expr) = python_expr

\* C19: in the rewritten text every juxtaposition listed for implicit
\* multiplication has its '*': no ')' is followed by '(', a letter or a digit,
\* and no digit is followed by a letter, or by '(' unless the digit ends a
\* mapped function name; this also when a group was written with braces or
\* bars.  '2x' is rewritten to '2*x'.
JuxtapositionsMultiplied ==
    LET EndsName(s, i) ==
            \E k \in 1..Len(FUNCTION_MAP) :
                /\ i >= Len(FUNCTION_MAP[k].py)
                /\ SubSeq(s, i - Len(FUNCTION_MAP[k].py) + 1, i) = FUNCTION_MAP[k].py
        explicit(s) ==
            \A i \in 1..(Len(s) - 1) :
                /\ s[i] = ")" => s[i + 1] \notin ({"("} \cup Letter \cup Digit)
                /\ s[i] \in Digit =>
                       /\ s[i + 1] \notin Letter
                       /\ s[i + 1] = "(" => EndsName(s, i)
    IN  pc = "rewritten" =>
            /\ explicit(python_expr)
            /\ request.latex = <<"2","x">> => python_expr = <<"2","*","x">>

\* C20: a backslash command whose name is not a command of FUNCTION_MAP or
\* CONSTANT_MAP (nor \frac or \sqrt, which have their own steps), a name that
\* starts like one of them included, is dropped: the rewritten text is the one
\* of the input without these commands, and it has no brace and no whitespace.
UnknownCommandsDropped ==
    LET Known == {Tail(FUNCTION_MAP[k].latex) : k \in 1..Len(FUNCTION_MAP)}
                     \cup {Tail(CONSTANT_MAP[k].latex) : k \in 1..Len(CONSTANT_MAP)}
                     \cup {<<"f","r","a","c">>, <<"s","q","r","t">>}
        NameEnd(s, j) == RunEnd(In(Letter), s, j + 1)
        Unknown(s) == {j \in 1..Len(s) :
                          /\ s[j] = "\\"
                          /\ NameEnd(s, j) > j + 1
                          /\ SubSeq(s, j + 1, NameEnd(s, j) - 1) \notin Known}
        Kept(s) == {i \in 1..Len(s) :
                       \A j \in Unknown(s) : i < j \/ i >= NameEnd(s, j)}
        At(keep, k) == CHOOSE i \in keep : Cardinality({j \in keep : j <= i}) = k
        Select(s, keep) == [k \in 1..Cardinality(keep) |-> s[At(keep, k)]]
        Without(s) == Select(s, Kept(s))
    IN  pc = "rewritten" =>
            /\ python_expr
                   = _convert_latex_to_python(Without(_remove_lhs(Strip(request.latex))))
            /\ \A i \in 1..Len(python_expr) :
                   python_expr[i] \notin {"{", "}"} \cup Whitespace

\* C21: a constant command of CONSTANT_MAP is rewritten to its constant and
\* used as a number whatever follows it: alone it is the constant, followed by
\* an exponent it is the base of the power, and followed by a variable or by a
\* parenthesized group it is multiplied with it.
ConstantsAreOperands ==
    LET Follows == {
            [in |-> <<>>,                 out |-> <<>>],
            [in |-> <<"^","2">>,          out |-> <<"*","*","2">>],
            [in |-> <<"^","{","2","}">>,  out |-> <<"*","*","(","2",")">>],
            [in |-> <<"^","{","x","}">>,  out |-> <<"*","*","(","x",")">>],
            [in |-> <<" ","x">>,          out |-> <<"*","x">>],
            [in |-> <<"(","x",")">>,      out |-> <<"*","(","x",")">>] }
    IN  pc = "rewritten" =>
            \A k \in 1..Len(CONSTANT_MAP) : \A w \in Follows :
                request.latex = CONSTANT_MAP[k].latex \o w.in
                    => python_expr = CONSTANT_MAP[k].py \o w.out

\* C22: the power steps leave no '^' behind: when every '^' of a text with
\* closed braces is followed by a braced group, a digit or a letter, the
\* rewritten text has no '^'; a braced exponent, braced powers inside it
\* included, becomes '**(' group ')' as a whole.  'x^{2+3}' is rewritten to
\* 'x**(2+3)' and 'x^2' to 'x**2'.
PowersNormalized ==
    LET Normal(s) ==
            /\ Count(s, "{") = Count(s, "}")
            /\ \A i \in 1..Len(s) :
                   s[i] = "^" => CharAt(s, i + 1) \in {"{"} \cup Digit \cup Letter
    IN  pc = "rewritten" =>
            /\ Normal(_remove_lhs(Strip(request.latex))) => Count(python_expr, "^") = 0
            /\ request.latex = <<"x","^","{","2","+","3","}">>
                   => python_expr = <<"x","*","*","(","2","+","3",")">>
            /\ request.latex = <<"x","^","{","x","^","{","2","}","}">>
                   => python_expr = <<"x","*","*","(","x","*","*","(","2",")",")">>
            /\ request.latex = <<"x","^","2">> => python_expr = <<"x","*","*","2">>

\* C23: left-hand-side stripping is first-match-wins: the patterns 'y =',
\* '<letter>(...) =', '<identifier> =' are tried in this order at the start of
\* the trimmed text, and only the first that matches removes text, once; a
\* text without a left-hand side is only trimmed.  'y = x^2' and 'f(x) = x^2'
\* both become 'x^2'.
LhsFirstMatchWins ==
    LET x2 == <<"x","^","2">>
        Matching(s) == {k \in 1..Len(LhsPatterns) : MatchAt(LhsPatterns[k], s, 1).ok}
        First(ks) == CHOOSE k \in ks : \A j \in ks : k <= j
        Expected(s, ks) ==
            IF ks = {} THEN s ELSE Strip(ReSubStart(LhsPatterns[First(ks)], <<>>, s))
        FirstOnly(s) == Expected(s, Matching(s))
    IN  pc = "normalized" =>
            /\ python_expr = FirstOnly(Strip(request.latex))
            /\ request.latex \in {<<"y"," ","="," ">> \o x2,
                                  <<"f","(","x",")"," ","="," ">> \o x2}
                   => python_expr = x2

\* C24: a function-style left-hand side is stripped for every single letter:
\* for a letter L and a right-hand side r without '=', 'L(x) = r' is
\* normalized to r.
LhsStrippedForEveryLetter ==
    LET head == <<"(","x",")"," ","="," ">>
        rhs(s) == SubSeq(s, 8, Len(s))
        FunctionStyle(s) ==
            /\ Len(s) > 7
            /\ s[1] \in Letter
            /\ SubSeq(s, 2, 7) = head
            /\ Count(rhs(s), "=") = 0
    IN  (pc = "normalized" /\ FunctionStyle(request.latex))
            => python_expr = Strip(rhs(request.latex))

ReciprocalClosesWholeArgument ==
    LET Opens(s, j) == Cardinality({i \in 1..j : s[i] = "("})
        Closes(s, j) == Cardinality({i \in 1..j : s[i] = ")"})
        Balanced(s) ==
            /\ Opens(s, Len(s)) = Closes(s, Len(s))
            /\ \A j \in 1..Len(s) : Opens(s, j) >= Closes(s, j)
        arg(s, n) == SubSeq(s, n + 2, Len(s) - 1)
        IsCall(s, fm) ==
            /\ Len(s) > Len(fm.latex) + 2
            /\ SubSeq(s, 1, Len(fm.latex) + 1) = fm.latex \o <<"(">>
            /\ s[Len(s)] = ")"
            /\ Balanced(arg(s, Len(fm.latex)))
    IN  pc = "rewritten" =>
            \A k \in 1..Len(FUNCTION_MAP) :
                (/\ FUNCTION_MAP[k].latex \in
                        {<<"\\","c","o","t">>, <<"\\","s","e","c">>, <<"\\","c","s","c">>}
                 /\ IsCall(request.latex, FUNCTION_MAP[k])) =>
                    python_expr = FUNCTION_MAP[k].py \o <<"(">>
                        \o _convert_latex_to_python(
                               arg(request.latex, Len(FUNCTION_MAP[k].latex)))
                        \o <<")",")">>

\* C26: a degenerate evaluation is answered with a rejection: when the values
\* of a validated expression over the requested range hold no finite number,
\* /equation/render-png answers 400 'no valid values' and opens no figure, and
\* when the value at x = 1 is NaN /equation/parse answers valid = false with
\* an error text; each handler answers, no exception leaves it.
DegenerateIsRejected ==
    [][LET Numbers(y) == y.k \in {"int", "float", "np", "arr"}
           NoneOf(y, kinds) ==
               /\ Numbers(y)
               /\ \A i \in 1..Len(Elems(y)) : Elems(y)[i].t \notin kinds
       IN (pc = "idle" /\ pc' = "done" /\ parse_error' = "ok") =>
              /\ (request'.handler = "render" /\ NoneOf(result', {"num", "sym"})) =>
                     /\ response'.status = "400"
                     /\ response'.detail = "no valid values"
                     /\ figures' = figures
              /\ (request'.handler = "parse" /\ NoneOf(result', {"num", "sym", "inf"})) =>
                     /\ response'.status = "200"
                     /\ ~response'.valid
                     /\ response'.detail # ""
              /\ response'.status \in {"200", "400", "500"}]_vars

\* a plot request for a validated expression without a finite value in the
\* range has been answered 400
NoFiniteValueAnswered ==
    /\ pc = "done"
    /\ request.handler = "render"
    /\ parse_error = "ok"
    /\ result.k = "arr"
    /\ \A i \in 1..Len(result.a) : result.a[i].t \in {"nan", "inf"}
    /\ response.status = "400"

\* C27: every /equation/render-png request ends in 200, 400 or 500: an
\* EquationParseError of the parser gives 400 with the parser's reason, the
\* 400 the handler raises itself stays a 400, and any other exception gives
\* 500; /equation/parse always returns, with valid = false and the reason for
\* every failure.
HandlersMapEveryFailure ==
    LET failed == parse_error \notin {"ok", "none"}
        finite == \E i \in 1..Len(Elems(result)) : Elems(result)[i].t \in {"num", "sym"}
    IN  /\ (pc = "done" /\ request.handler = "render") =>
               /\ response.status \in {"200", "400", "500"}
               /\ response.valid <=> response.status = "200"
               /\ failed => response.status = "400" /\ response.detail = parse_error
               /\ (~failed /\ IsNumeric(result) /\ ~finite) =>
                      response.status = "400" /\ response.detail = "no valid values"
               /\ (~failed /\ ~IsNumeric(result)) => response.status = "500"
               /\ response.status = "400" => failed \/ ~finite
        /\ (pc = "done" /\ request.handler = "parse") =>
               /\ response.status = "200"
               /\ failed => ~response.valid /\ response.detail = parse_error
               /\ (~failed /\ ~IsNumeric(result)) =>
                      ~response.valid /\ response.detail = "Parse error"
               /\ ~response.valid => response.detail # ""

\* the 400 that /equation/render-png raises itself, for a validated
\* expression, has been passed on as a 400
OwnRejectionPassedOn ==
    /\ pc = "done"
    /\ request.handler = "render"
    /\ parse_error = "ok"
    /\ IsNumeric(result)
    /\ response.status = "400"
    /\ response.detail = "no valid values"

\* C29: every example of GET /equation/examples is accepted by parse, and
\* sampled over the default range [-10, 10] its evaluator gives at least one
\* finite value: /equation/render-png answers none of them with 400.
ExamplesArePlottable ==
    LET IsExample == \E k \in 1..Len(Examples) : request.latex = Examples[k]
        finite == \E i \in 1..Len(Elems(result)) : Elems(result)[i].t \in {"num", "sym"}
    IN  (pc = "done" /\ IsExample) =>
            /\ request.handler \in {"parse", "render", "plottable"} => parse_error = "ok"
            /\ request.handler = "parse" => response.valid
            /\ (request.handler = "render" /\ request.x_min = -10 /\ request.x_max = 10) =>
                   /\ raised = ""
                   /\ IsNumeric(result)
                   /\ finite
                   /\ response.status # "400"

\* the example '\frac{1}{x}' has been plotted over [-10, 10]
ExamplePlotted ==
    /\ pc = "done"
    /\ request.handler = "render"
    /\ request.latex = <<"\\","f","r","a","c","{","1","}","{","x","}">>
    /\ request.x_min = -10
    /\ request.x_max = 10
    /\ response.status = "200"

\* C30: every figure created while a request is handled is closed before the
\* request completes, on the success path and on every error path: a request
\* leaves as many figures open as it found.
FiguresClosedByEveryRequest ==
    [][(pc = "idle" /\ pc' = "done") => figures' = figures]_vars

====
